---- MODULE Spec2Model ----
(***************************************************************************)
(* A model of the autoclip V2 highlight pipeline                          *)
(* (backend/app/pipeline/v2): window selection, the post-filter passes,    *)
(* the pipeline runner with its progress reports, feature cache and debug  *)
(* artifact, and the feature-cache file shared by concurrent invocations;  *)
(* of the v1 scene segmentation (backend/app/pipeline/v1) and of the       *)
(* JobRunner (backend/app/workers).                                        *)
(*                                                                         *)
(* Units.  Times are integers counting eighths of a second, so that the    *)
(* code's `needed / 2` is exact for sample times on the 0.5 s grid and     *)
(* video durations on a 0.25 s grid.  Scores (boundary score, excitement,  *)
(* quality) are integers counting thousandths.  Progress percentages are   *)
(* integers counting hundredths of a percent.                              *)
(***************************************************************************)
EXTENDS Integers, Sequences, FiniteSets, TLC

----------------------------------------------------------------------------
(* V2PipelineConfig defaults (config.py), in the units above.              *)

step_sec == 4
min_clip_seconds == 40
max_clip_seconds == 480
pre_max == 112
pre_min == 16
post_max == 224
post_min == 16
fallback_pre == 64
fallback_post == 96
\* overlap_iou_threshold, in hundredths
overlap_iou_threshold == 35
\* boring_threshold, in thousandths
boring_threshold == 150
\* boring_duration_ratio, in hundredths
boring_duration_ratio == 70

(* Bounds of the model.                                                    *)

\* video durations lie within DurationSpread quarter-seconds of min_clip_seconds
DurationSpread == 3
\* anchors handed to select_windows
MaxAnchors == 2
\* boundary candidates handed to select_windows
MaxBoundaries == 2
\* candidate windows handed to apply_post_filters
MaxWindows == 3
\* invocations of run_v2_pipeline on one project directory
MaxRuns == 2
\* invocations running at once in separate processes
NumInvocations == 2
\* writes json.dump needs for one features document
ChunksPerPayload == 2
\* timestamps the decoder prints for one signal
MaxEvents == 2
\* config.target_clip_count_soft: the tests run with 10, the default is 200;
\* the model runs with a cap below MaxWindows
target_clip_count_soft == 2

----------------------------------------------------------------------------
VARIABLES
    \* select_windows (windows.py)
    duration,       \* features.duration
    excitement,     \* features.excitement, one level per sample
    boundaries,     \* the boundary candidates, in time order
    anchors,        \* the anchors the loop has consumed so far
    windows,        \* the ClipWindow list built so far
    wpc,            \* "idle", "loop" or "returned"
    \* apply_post_filters (post_filters.py)
    fin,            \* the windows argument
    fkept,          \* the list each pass returned
    fdec,           \* the FilterDecisions each pass returned
    final,          \* the list apply_post_filters returned
    fpc,            \* "idle", "building" or "returned"
    \* run_v2_pipeline (runner.py)
    config,         \* cache_version, write_debug_json, write_debug_plot
    cache_file,     \* the content of features/features_v2.json
    pc,             \* where the invocation stands
    progress,       \* the pct values passed to the progress callback
    features,       \* the features the invocation works with
    data,           \* what load_cached_features found in the file
    cache_hit,      \* load_cached_features returned features
    tasks,          \* the decoder call of each signal
    save_error,     \* save_features_cache raised
    debug_error,    \* write_debug_json raised
    debug_json,     \* "none", "written" or "failed"
    debug_plot,     \* "none", "written" or "failed"
    result,         \* "pending", "returned", "raised" or "cancelled"
    runs,           \* invocations so far on this project directory
    cancelled,      \* "no", or where the invocation stood when it was cancelled
    \* features_v2.json shared by invocations in separate processes
    disk,           \* the file: whether it exists, and its chunks
    cpc,            \* where each invocation stands
    offset,         \* each writer's position in the file it opened
    observed,       \* what each invocation's load_cached_features read
    \* the stages on one ExtractedFeatures (anchors.py, boundaries.py)
    audio_rms_z,    \* features.audio_rms_z, one z-score per sample
    motion_score_z, \* features.motion_score_z, one z-score per sample
    scene_cuts,     \* features.scene_cuts
    fade_timestamps,\* features.fade_timestamps
    frame_hash,     \* what simple_frame_hash returns for the video
    spc,            \* where the stages stand
    rerun,          \* what a second run of the stages returned
    \* the event lists of extract_features (features.py)
    reported,       \* the timestamps the decoder printed, and the duration
    event_lists,    \* scene_cuts, fade_timestamps, freeze_timestamps built
    \* find_local_maxima (anchors.py)
    lm_in,          \* the arguments arr, min_distance_sec and threshold
    lm_selected,    \* the list it returned
    lm_pc,          \* "idle", "call" or "returned"
    \* the v1 scene segmentation (v1/scene_segmentation.py)
    seg_in,         \* the arguments of the function under way
    segments,       \* the Segment list it works on
    seg_pc,         \* where it stands
    seg_aux,        \* its local variables
    \* JobRunner (workers/job_runner.py)
    job_status,     \* Job.status of each job, as committed
    running_jobs,   \* the keys of self._running_jobs
    job_task,       \* the task of each job: where its coroutine stands
    job_aux         \* what the callers of the JobRunner have seen

winVars == <<duration, excitement, boundaries, anchors, windows, wpc>>
filterVars == <<fin, fkept, fdec, final, fpc>>

pipeVars == <<config, cache_file, pc, progress, features, data, cache_hit, tasks,
              save_error, debug_error, debug_json, debug_plot, result, runs, cancelled>>

cacheVars == <<disk, cpc, offset, observed>>

stageVars == <<audio_rms_z, motion_score_z, scene_cuts, fade_timestamps,
               frame_hash, spc, rerun>>

eventVars == <<reported, event_lists>>

lmVars == <<lm_in, lm_selected, lm_pc>>

segVars == <<seg_in, segments, seg_pc, seg_aux>>

jobVars == <<job_status, running_jobs, job_task, job_aux>>

vars == <<winVars, filterVars, pipeVars, cacheVars, stageVars, eventVars,
          lmVars, segVars, jobVars>>

notWinVars == <<filterVars, pipeVars, cacheVars, stageVars, eventVars, lmVars, segVars, jobVars>>
notFilterVars == <<winVars, pipeVars, cacheVars, stageVars, eventVars, lmVars, segVars, jobVars>>
notPipeVars == <<winVars, filterVars, cacheVars, stageVars, eventVars, lmVars, segVars, jobVars>>
notCacheVars == <<winVars, filterVars, pipeVars, stageVars, eventVars, lmVars, segVars, jobVars>>
notEventVars == <<winVars, filterVars, pipeVars, cacheVars, stageVars, lmVars, segVars, jobVars>>

Max(a, b) == IF a >= b THEN a ELSE b
Min(a, b) == IF a <= b THEN a ELSE b

----------------------------------------------------------------------------
(* Features (features.py)                                                  *)

\* N = int(duration / step_sec) + 1
num_samples(d) == (d \div step_sec) + 1

\* times = arange(num_samples) * step_sec
times(d) == { i * step_sec : i \in 0..(num_samples(d) - 1) }

RECURSIVE SumSlice(_, _, _)
\* np.sum(arr[lo:hi]) for 0-based lo <= hi <= len(arr); arr is 1-based here
SumSlice(arr, lo, hi) ==
    IF lo >= hi THEN 0 ELSE arr[lo + 1] + SumSlice(arr, lo + 1, hi)

\* the integral in level-ticks (thousandths times eighths of a second)
get_excitement_integral(exc, start_sec, end_sec) ==
    LET start_idx == Max(0, start_sec \div step_sec)
        end_idx   == Min(Len(exc), (end_sec \div step_sec) + 1)
    IN  IF start_idx >= end_idx THEN 0
        ELSE SumSlice(exc, start_idx, end_idx) * step_sec

----------------------------------------------------------------------------
(* Boundaries (boundaries.py)                                              *)

get_boundaries_in_range(bs, start_sec, end_sec) ==
    SelectSeq(bs, LAMBDA b : start_sec <= b.time_sec /\ b.time_sec <= end_sec)

\* Python's max(seq, key=...): the first element with the largest key
FirstMax(seq, Key(_)) ==
    seq[CHOOSE i \in 1..Len(seq) :
            /\ \A j \in 1..Len(seq) : Key(seq[j]) <= Key(seq[i])
            /\ \A j \in 1..(i - 1) : Key(seq[j]) < Key(seq[i])]

\* Optional[BoundaryCandidate] as a sequence of length 0 or 1
get_best_boundary_in_range(bs, start_sec, end_sec) ==
    LET in_range == get_boundaries_in_range(bs, start_sec, end_sec)
    IN  IF in_range = <<>> THEN <<>>
        ELSE <<FirstMax(in_range, LAMBDA b : b.score)>>

----------------------------------------------------------------------------
(* Window selection (windows.py)                                           *)

\* select_start_boundary with a fallback that is not floored at 0
select_start_boundary_unfloored(anchor_time, bs) ==
    LET search_start == Max(0, anchor_time - pre_max)
        search_end   == Max(0, anchor_time - pre_min)
        fallback     == [time |-> anchor_time - fallback_pre,
                         score |-> 0, reason |-> "fallback_offset"]
    IN  IF search_start >= search_end THEN fallback
        ELSE LET best == get_best_boundary_in_range(bs, search_start, search_end)
             IN  IF best # <<>>
                 THEN [time |-> best[1].time_sec, score |-> best[1].score,
                       reason |-> "boundary_snap"]
                 ELSE fallback

select_start_boundary(anchor_time, bs) ==
    LET search_start == Max(0, anchor_time - pre_max)
        search_end   == Max(0, anchor_time - pre_min)
        fallback     == [time |-> Max(0, anchor_time - fallback_pre),
                         score |-> 0, reason |-> "fallback_offset"]
    IN  IF search_start >= search_end THEN fallback
        ELSE LET best == get_best_boundary_in_range(bs, search_start, search_end)
             IN  IF best # <<>>
                 THEN [time |-> best[1].time_sec, score |-> best[1].score,
                       reason |-> "boundary_snap"]
                 ELSE fallback

\* 80 * (b.score + min(0.2, excitement * 0.1)), the integral being in
\* level-ticks: 1000 * 8 level-ticks are one unit of the code's integral
end_preference_score(b, anchor_time, exc) ==
    LET lookback_start == Max(anchor_time, b.time_sec - 24)
        integral == get_excitement_integral(exc, lookback_start, b.time_sec)
    IN  80 * b.score + Min(16000, integral)

\* select_end_boundary without the limit start_time + max_clip_seconds
select_end_boundary_unclamped(anchor_time, start_time, bs, exc, video_duration) ==
    LET search_start == anchor_time + post_min
        search_end   == Min(video_duration, anchor_time + post_max)
        fallback     ==
            [time |-> Min(video_duration, anchor_time + fallback_post),
             score |-> 0, reason |-> "fallback_offset"]
        candidates   == get_boundaries_in_range(bs, search_start, search_end)
    IN  IF search_start >= search_end THEN fallback
        ELSE IF candidates = <<>> THEN fallback
        ELSE LET best == FirstMax(candidates,
                            LAMBDA b : end_preference_score(b, anchor_time, exc))
             IN  [time |-> best.time_sec, score |-> best.score,
                  reason |-> "boundary_snap"]

select_end_boundary(anchor_time, start_time, bs, exc, video_duration) ==
    LET max_end      == Min(video_duration, start_time + max_clip_seconds)
        search_start == anchor_time + post_min
        search_end   == Min(max_end, anchor_time + post_max)
        fallback     ==
            [time |-> Min(Min(video_duration, anchor_time + fallback_post),
                          start_time + max_clip_seconds),
             score |-> 0, reason |-> "fallback_offset"]
        candidates   == get_boundaries_in_range(bs, search_start, search_end)
    IN  IF search_start >= search_end THEN fallback
        ELSE IF candidates = <<>> THEN fallback
        ELSE LET best == FirstMax(candidates,
                            LAMBDA b : end_preference_score(b, anchor_time, exc))
             IN  [time |-> best.time_sec, score |-> best.score,
                  reason |-> "boundary_snap"]

\* enforce_constraints without the force-minimum step
enforce_constraints_no_force(start0, end0, end_reason0, video_duration) ==
    LET clip_duration0 == end0 - start0
        short  == clip_duration0 < min_clip_seconds
        needed == min_clip_seconds - clip_duration0
        end1   == IF short THEN Min(video_duration, end0 + (needed \div 2)) ELSE end0
        start1 == IF short THEN Max(0, start0 - (needed \div 2)) ELSE start0
        clip_duration1 == IF short THEN end1 - start1 ELSE clip_duration0
        long   == clip_duration1 > max_clip_seconds
        end3   == IF long THEN start1 + max_clip_seconds ELSE end1
    IN  [start_sec |-> start1, end_sec |-> end3,
         end_reason |-> IF long THEN "hard_cut_max_duration" ELSE end_reason0,
         valid |-> ~(end3 <= start1)]

\* the "Enforce constraints" block of the loop body: expansion of a short
\* window, the force-minimum step, the hard cut of a long one and the final
\* validation.  clip_duration is not recomputed after the force-minimum step.
enforce_constraints(start0, end0, end_reason0, video_duration) ==
    LET clip_duration0 == end0 - start0
        short  == clip_duration0 < min_clip_seconds
        needed == min_clip_seconds - clip_duration0
        end1   == IF short THEN Min(video_duration, end0 + (needed \div 2)) ELSE end0
        start1 == IF short THEN Max(0, start0 - (needed \div 2)) ELSE start0
        clip_duration1 == IF short THEN end1 - start1 ELSE clip_duration0
        force  == short /\ clip_duration1 < min_clip_seconds
        end2   == IF force /\ end1 < video_duration
                  THEN Min(video_duration, start1 + min_clip_seconds) ELSE end1
        start2 == IF force /\ ~(end1 < video_duration)
                  THEN Max(0, end1 - min_clip_seconds) ELSE start1
        long   == clip_duration1 > max_clip_seconds
        end3   == IF long THEN start2 + max_clip_seconds ELSE end2
    IN  [start_sec |-> start2, end_sec |-> end3,
         end_reason |-> IF long THEN "hard_cut_max_duration" ELSE end_reason0,
         valid |-> ~(end3 <= start2)]

\* one iteration of the loop over the anchors: the windows it appends
\* the loop body from the end selection on, for a start s already selected
clip_window_from(anchor, s, bs, exc, video_duration) ==
    LET e == select_end_boundary(anchor.time_sec, s.time, bs, exc, video_duration)
        c == enforce_constraints(s.time, e.time, e.reason, video_duration)
    IN  IF ~c.valid THEN <<>>
        ELSE <<[start_sec |-> c.start_sec, end_sec |-> c.end_sec,
                anchor_time_sec |-> anchor.time_sec,
                anchor_score |-> anchor.score,
                start_boundary_score |-> s.score,
                end_boundary_score |-> e.score,
                start_reason |-> s.reason, end_reason |-> c.end_reason]>>

clip_window(anchor, bs, exc, video_duration) ==
    LET s == select_start_boundary(anchor.time_sec, bs)
        e == select_end_boundary(anchor.time_sec, s.time, bs, exc, video_duration)
        c == enforce_constraints(s.time, e.time, e.reason, video_duration)
    IN  IF ~c.valid THEN <<>>
        ELSE <<[start_sec |-> c.start_sec, end_sec |-> c.end_sec,
                anchor_time_sec |-> anchor.time_sec,
                anchor_score |-> anchor.score,
                start_boundary_score |-> s.score,
                end_boundary_score |-> e.score,
                start_reason |-> s.reason, end_reason |-> c.end_reason]>>

quality_w_excitement == 400
quality_w_dead_time_penalty == 200
quality_w_boundary_quality == 200
quality_w_narrative == 200
\* a sample below this level counts as low activity in compute_quality_score
low_activity_level == 100

\* compute_quality_score: total in thousandths.  The integral is in
\* level-ticks, so integral / max(1, duration) divides by max(8, ticks).
compute_quality_score(start_sec, end_sec, anchor_time_sec, anchor_score, exc, start_boundary_score, end_boundary_score) ==
    LET clip_duration == end_sec - start_sec
        excitement_score ==
            get_excitement_integral(exc, start_sec, end_sec)
                \div Max(8, clip_duration)
        start_idx == Max(0, start_sec \div step_sec)
        end_idx   == Min(Len(exc), (end_sec \div step_sec) + 1)
        low == Cardinality({ i \in (start_idx + 1)..end_idx :
                                exc[i] < low_activity_level })
        dead_time_penalty ==
            IF end_idx > start_idx
            THEN (low * quality_w_dead_time_penalty) \div (end_idx - start_idx)
            ELSE 0
        boundary_quality == (start_boundary_score + end_boundary_score) \div 2
        min_offset == Min(anchor_time_sec - start_sec, end_sec - anchor_time_sec)
        narrative_score ==
            IF 5 * min_offset < clip_duration
            THEN (5000 * min_offset) \div clip_duration ELSE 1000
        total == (quality_w_excitement * excitement_score
                  + quality_w_boundary_quality * boundary_quality
                  + quality_w_narrative * narrative_score) \div 1000
                 - dead_time_penalty
    IN  (total * (500 + Min(1000, anchor_score) \div 2)) \div 1000

\* the ClipWindow the loop appends for a valid window, with its quality
scored(w, exc) ==
    [start_sec |-> w.start_sec, end_sec |-> w.end_sec,
     anchor_time_sec |-> w.anchor_time_sec,
     anchor_score |-> w.anchor_score,
     quality_score |->
         compute_quality_score(w.start_sec, w.end_sec, w.anchor_time_sec,
             w.anchor_score, exc, w.start_boundary_score,
             w.end_boundary_score),
     start_boundary_score |-> w.start_boundary_score,
     end_boundary_score |-> w.end_boundary_score,
     start_reason |-> w.start_reason, end_reason |-> w.end_reason]

\* the ClipWindows of a list of zero or one valid window
all_scored(ws, exc) == [k \in 1..Len(ws) |-> scored(ws[k], exc)]

RECURSIVE select_windows_loop(_, _, _, _, _, _)
\* the loop of select_windows from anchor i on
select_windows_loop(ancs, i, acc, bs, exc, video_duration) ==
    IF i > Len(ancs) THEN acc
    ELSE select_windows_loop(ancs, i + 1,
             acc \o all_scored(clip_window(ancs[i], bs, exc, video_duration),
                               exc),
             bs, exc, video_duration)

\* the windows select_windows returns
select_windows(ancs, bs, exc, video_duration) ==
    select_windows_loop(ancs, 1, <<>>, bs, exc, video_duration)

----------------------------------------------------------------------------
(* Post-filters (post_filters.py)                                          *)

RECURSIVE StableOrder(_, _)
\* the order sorted(..., key=..., reverse=...) visits a list with these keys:
\* a stable sort, also with reverse=True
StableOrder(keys, reverse) ==
    IF keys = <<>> THEN <<>>
    ELSE LET n    == Len(keys)
             init == StableOrder(SubSeq(keys, 1, n - 1), reverse)
             k    == Cardinality({ i \in 1..(n - 1) :
                          IF reverse THEN keys[i] >= keys[n]
                                     ELSE keys[i] <= keys[n] })
         IN  SubSeq(init, 1, k) \o <<n>> \o SubSeq(init, k + 1, n - 1)

\* the windows left in the caller's order
sorted_by_quality_skipped(ws) == ws

\* sorted(ws, key=lambda w: w.quality_score, reverse=True)
sorted_by_quality(ws) ==
    LET order == StableOrder([i \in 1..Len(ws) |-> ws[i].quality_score], TRUE)
    IN  [i \in 1..Len(ws) |-> ws[order[i]]]

\* the final re-sort left out
sorted_by_start_skipped(ws) == ws

\* ws.sort(key=lambda w: w.start_sec)
sorted_by_start(ws) ==
    LET order == StableOrder([i \in 1..Len(ws) |-> ws[i].start_sec], FALSE)
    IN  [i \in 1..Len(ws) |-> ws[order[i]]]

\* list.index(w), 0-based: the first element equal to w
index_of(ws, w) ==
    (CHOOSE i \in 1..Len(ws) :
        ws[i] = w /\ \A j \in 1..(i - 1) : ws[j] # w) - 1

\* `w in ws`
is_in(w, ws) == \E i \in 1..Len(ws) : ws[i] = w

\* compute_iou with the intersection not subtracted from the union
compute_iou_double_counted(window1, window2) ==
    LET start == Max(window1.start_sec, window2.start_sec)
        end   == Min(window1.end_sec, window2.end_sec)
        intersection == Max(0, end - start)
        union == (window1.end_sec - window1.start_sec)
                 + (window2.end_sec - window2.start_sec)
    IN  IF union <= 0 THEN [inter |-> 0, union |-> 1]
        ELSE [inter |-> intersection, union |-> union]

\* intersection and union of two windows; the IoU is inter / union, and 0
\* when union <= 0
compute_iou(window1, window2) ==
    LET start == Max(window1.start_sec, window2.start_sec)
        end   == Min(window1.end_sec, window2.end_sec)
        intersection == Max(0, end - start)
        union == (window1.end_sec - window1.start_sec)
                 + (window2.end_sec - window2.start_sec) - intersection
    IN  IF union <= 0 THEN [inter |-> 0, union |-> 1]
        ELSE [inter |-> intersection, union |-> union]

\* iou > config.overlap_iou_threshold
iou_above_threshold(iou) == iou.inter * 100 > overlap_iou_threshold * iou.union

FilterDecision(clip_index, action, related) ==
    [clip_index |-> clip_index, action |-> action, related_clip_index |-> related]

\* related_clip_index = None
NoIndex == -1

RECURSIVE resolve_overlaps_loop(_, _, _, _, _)
\* the loop over sorted_windows, from position i on
resolve_overlaps_loop(ws, sorted_windows, i, kept, decisions) ==
    IF i > Len(sorted_windows) THEN [kept |-> kept, decisions |-> decisions]
    ELSE LET window == sorted_windows[i]
             original_idx == index_of(ws, window)
             hits == { k \in 1..Len(kept) :
                         iou_above_threshold(compute_iou(window, kept[k])) }
         IN  IF hits # {}
             THEN LET first == CHOOSE k \in hits : \A m \in hits : k <= m
                  IN  resolve_overlaps_loop(ws, sorted_windows, i + 1, kept,
                          Append(decisions,
                                 FilterDecision(original_idx, "drop_overlap",
                                                index_of(ws, kept[first]))))
             ELSE resolve_overlaps_loop(ws, sorted_windows, i + 1,
                      Append(kept, window),
                      Append(decisions,
                             FilterDecision(original_idx, "keep", NoIndex)))

resolve_overlaps(ws) ==
    IF ws = <<>> THEN [kept |-> <<>>, decisions |-> <<>>]
    ELSE resolve_overlaps_loop(ws, sorted_by_quality(ws), 1, <<>>, <<>>)

\* is_boring of filter_boring, for a window with excitement samples
is_boring(window, exc) ==
    LET start_idx == Max(0, window.start_sec \div step_sec)
        end_idx   == Min(Len(exc), (window.end_sec \div step_sec) + 1)
        n         == end_idx - start_idx
        low       == Cardinality({ i \in (start_idx + 1)..end_idx :
                                      exc[i] < boring_threshold })
    IN  /\ end_idx > start_idx
        /\ SumSlice(exc, start_idx, end_idx) < boring_threshold * n
        /\ low * 100 > boring_duration_ratio * n
        /\ window.anchor_score < 500

filter_boring(ws, exc) ==
    [kept |-> SelectSeq(ws, LAMBDA w : ~is_boring(w, exc)),
     decisions |-> [i \in 1..Len(ws) |->
        IF is_boring(ws[i], exc)
        THEN FilterDecision(i - 1, "drop_boring", NoIndex)
        ELSE FilterDecision(i - 1, "keep", NoIndex)]]

\* the kept windows a window is a duplicate of: within 30 s, both hashes
\* known and equal, and the window's quality strictly lower
\* the comparison without the 30 s test
duplicate_of_any_distance(ws, orig, kept_indices) ==
    { k \in kept_indices :
        /\ ws[orig].mid_hash # "none" /\ ws[k].mid_hash # "none"
        /\ ws[orig].mid_hash = ws[k].mid_hash
        /\ ws[orig].quality_score < ws[k].quality_score }

duplicate_of(ws, orig, kept_indices) ==
    { k \in kept_indices :
        LET time_diff == IF ws[orig].start_sec >= ws[k].start_sec
                         THEN ws[orig].start_sec - ws[k].start_sec
                         ELSE ws[k].start_sec - ws[orig].start_sec
        IN  /\ ~(time_diff > 240)
            /\ ws[orig].mid_hash # "none" /\ ws[k].mid_hash # "none"
            /\ ws[orig].mid_hash = ws[k].mid_hash
            /\ ws[orig].quality_score < ws[k].quality_score }

RECURSIVE deduplicate_loop(_, _, _, _, _)
\* the loop over windows_with_idx (1-based positions in ws, in start order);
\* dropped maps a dropped position to the kept one it duplicates
deduplicate_loop(ws, order, i, kept_indices, dropped) ==
    IF i > Len(order) THEN [kept_indices |-> kept_indices, dropped |-> dropped]
    ELSE LET orig == order[i]
             dups == duplicate_of(ws, orig, kept_indices)
         IN  IF dups # {}
             THEN deduplicate_loop(ws, order, i + 1, kept_indices,
                      dropped @@ (orig :> (CHOOSE k \in dups :
                                              \A m \in dups : k <= m)))
             ELSE deduplicate_loop(ws, order, i + 1,
                      kept_indices \cup {orig}, dropped)

\* deduplicate_clips taking the single-clip return for every input
deduplicate_clips_single_decision(ws) ==
    [kept |-> ws,
     decisions |-> [i \in 1..Len(ws) |-> FilterDecision(0, "keep", NoIndex)]]

deduplicate_clips(ws) ==
    IF Len(ws) < 2
    THEN [kept |-> ws,
          decisions |-> [i \in 1..Len(ws) |-> FilterDecision(0, "keep", NoIndex)]]
    ELSE LET order == StableOrder([i \in 1..Len(ws) |-> ws[i].start_sec], FALSE)
             r == deduplicate_loop(ws, order, 1, {}, <<>>)
             keep_order == SelectSeq([i \in 1..Len(ws) |-> i],
                                     LAMBDA i : i \in r.kept_indices)
         IN  [kept |-> [j \in 1..Len(keep_order) |-> ws[keep_order[j]]],
              decisions |-> [i \in 1..Len(ws) |->
                 IF i \in r.kept_indices
                 THEN FilterDecision(i - 1, "keep", NoIndex)
                 ELSE FilterDecision(i - 1, "drop_duplicate", r.dropped[i] - 1)]]

\* filter_by_quality_target with a slice one too long
filter_by_quality_target_off_by_one(ws) ==
    IF Len(ws) <= target_clip_count_soft
    THEN [kept |-> ws,
          decisions |-> [i \in 1..Len(ws) |-> FilterDecision(i - 1, "keep", NoIndex)]]
    ELSE LET sorted_windows == sorted_by_quality(ws)
             kept == SubSeq(sorted_windows, 1, target_clip_count_soft + 1)
         IN  [kept |-> kept,
              decisions |-> [i \in 1..Len(ws) |->
                 IF is_in(ws[i], kept)
                 THEN FilterDecision(index_of(ws, ws[i]), "keep", NoIndex)
                 ELSE FilterDecision(index_of(ws, ws[i]), "drop_quality", NoIndex)]]

filter_by_quality_target(ws) ==
    IF Len(ws) <= target_clip_count_soft
    THEN [kept |-> ws,
          decisions |-> [i \in 1..Len(ws) |-> FilterDecision(i - 1, "keep", NoIndex)]]
    ELSE LET sorted_windows == sorted_by_quality(ws)
             kept == SubSeq(sorted_windows, 1, target_clip_count_soft)
         IN  [kept |-> kept,
              decisions |-> [i \in 1..Len(ws) |->
                 IF is_in(ws[i], kept)
                 THEN FilterDecision(index_of(ws, ws[i]), "keep", NoIndex)
                 ELSE FilterDecision(index_of(ws, ws[i]), "drop_quality", NoIndex)]]

\* the four passes and the final re-sort by start time
apply_post_filters(ws, exc) ==
    LET overlap   == resolve_overlaps(ws)
        boring    == filter_boring(overlap.kept, exc)
        duplicate == deduplicate_clips(boring.kept)
        quality   == filter_by_quality_target(duplicate.kept)
    IN  [windows |-> sorted_by_start(quality.kept),
         kept |-> [overlap |-> overlap.kept, boring |-> boring.kept,
                   duplicate |-> duplicate.kept, quality |-> quality.kept],
         decisions |-> [overlap |-> overlap.decisions, boring |-> boring.decisions,
                        duplicate |-> duplicate.decisions,
                        quality |-> quality.decisions]]

----------------------------------------------------------------------------
(* Anchor detection (anchors.py).  Array values and scores are in          *)
(* thousandths; products of two of them are floored to a thousandth.       *)

anchor_suppression_window_sec == 32
anchor_excitement_threshold == 300
max_anchors_per_minute == 8
\* the threshold of the audio-only peaks
audio_peak_threshold == 1500
\* the threshold of the action peaks
action_peak_threshold == 1000
\* window_sec: a scene cut counts for the samples closer than this
cut_window_sec == 40
\* the least value of max_anchors
min_max_anchors == 10

\* find_local_maxima without its suppression loop
suppress_none(maxima, i, selected, min_distance_sec) == maxima

RECURSIVE suppress(_, _, _, _)
\* the non-max suppression loop of find_local_maxima over the sorted maxima
suppress(maxima, i, selected, min_distance_sec) ==
    IF i > Len(maxima) THEN selected
    ELSE LET too_close == \E k \in 1..Len(selected) :
                 LET diff == maxima[i].time - selected[k].time
                 IN  (IF diff < 0 THEN 0 - diff ELSE diff) < min_distance_sec
         IN  suppress(maxima, i + 1,
                      IF too_close THEN selected ELSE Append(selected, maxima[i]),
                      min_distance_sec)

\* the indices (0-based) find_local_maxima appends to maxima
local_maximum_indices(arr, min_distance_sec, threshold) ==
    LET n == Len(arr)
        min_distance_samples == min_distance_sec \div step_sec
        is_max(i) ==
            /\ arr[i + 1] > threshold
            /\ LET window_start == Max(0, i - min_distance_samples)
                   window_end   == Min(n, i + min_distance_samples + 1)
               IN  \A j \in window_start..(window_end - 1) :
                       arr[j + 1] <= arr[i + 1]
    IN  SelectSeq([k \in 1..Max(0, n - 2) |-> k], is_max)

\* the (time, value, idx) triples of these indices
triples(arr, found) ==
    [k \in 1..Len(found) |->
        [time |-> found[k] * step_sec, value |-> arr[found[k] + 1],
         idx |-> found[k]]]

\* maxima.sort(key=lambda x: x[1], reverse=True)
sorted_by_value(maxima) ==
    LET order == StableOrder([k \in 1..Len(maxima) |-> maxima[k].value], TRUE)
    IN  [k \in 1..Len(maxima) |-> maxima[order[k]]]

\* the (time, value, idx) triples find_local_maxima returns, idx 0-based
find_local_maxima(arr, min_distance_sec, threshold) ==
    suppress(
        sorted_by_value(
            triples(arr,
                local_maximum_indices(arr, min_distance_sec, threshold))),
        1, <<>>, min_distance_sec)

\* methods 2 and 3 without the test against the anchors found so far
add_peaks_unchecked(peaks, i, found, weight, reason, az, mz) ==
    found \o [k \in 1..Len(peaks) |->
                [time_sec |-> peaks[k].time,
                 score |-> (peaks[k].value * weight) \div 10,
                 audio_z |-> az[peaks[k].idx + 1],
                 motion_z |-> mz[peaks[k].idx + 1],
                 reason |-> reason]]

RECURSIVE add_peaks(_, _, _, _, _, _, _)
\* the loops of methods 2 and 3 of detect_anchors: a peak closer than the
\* suppression window to an anchor found so far is skipped
add_peaks(peaks, i, found, weight, reason, az, mz) ==
    IF i > Len(peaks) THEN found
    ELSE LET p == peaks[i]
             near == \E k \in 1..Len(found) :
                 LET diff == p.time - found[k].time_sec
                 IN  (IF diff < 0 THEN 0 - diff ELSE diff)
                         < anchor_suppression_window_sec
         IN  add_peaks(peaks, i + 1,
                 IF near THEN found
                 ELSE Append(found,
                        [time_sec |-> p.time,
                         score |-> (p.value * weight) \div 10,
                         audio_z |-> az[p.idx + 1], motion_z |-> mz[p.idx + 1],
                         reason |-> reason]),
                 weight, reason, az, mz)

\* cut_density of method 3, per sample
cut_density(n, cuts) ==
    LET near(t, c) == LET diff == IF t < c THEN c - t ELSE t - c
                      IN  IF diff < cut_window_sec
                          THEN 8000 \div (8 + diff) ELSE 0
    IN  [i \in 1..n |->
            SumSlice([c \in 1..Len(cuts) |-> near((i - 1) * step_sec, cuts[c])],
                     0, Len(cuts))]

\* detect_anchors without the cut to max_anchors
max_anchors_unlimited(video_duration) == 2 * num_samples(video_duration)

\* max_anchors: int(duration / 60 * max_anchors_per_minute), capped at twice
\* the target clip count and at least min_max_anchors
max_anchors(video_duration) ==
    Max(min_max_anchors,
        Min((video_duration * max_anchors_per_minute) \div 480,
            target_clip_count_soft * 2))

\* the anchors of method 1, one per excitement peak
excitement_anchors(peaks, az, mz) ==
    [k \in 1..Len(peaks) |->
        [time_sec |-> peaks[k].time, score |-> peaks[k].value,
         audio_z |-> az[peaks[k].idx + 1], motion_z |-> mz[peaks[k].idx + 1],
         reason |-> "excitement_peak"]]

\* action_score of method 3
action_score(mz, density) ==
    [i \in 1..Len(mz) |-> (mz[i] * (1000 + density[i] \div 2)) \div 1000]

\* a sort by score that orders equal scores differently in a second run
sorted_by_score_unstable(found) ==
    LET n == Len(found)
        turned == IF rerun = <<>> THEN found
                  ELSE [k \in 1..n |-> found[n + 1 - k]]
        order == StableOrder([k \in 1..n |-> turned[k].score], TRUE)
    IN  [k \in 1..n |-> turned[order[k]]]

\* anchors.sort(key=lambda a: a.score, reverse=True)
sorted_by_score(found) ==
    LET order == StableOrder([k \in 1..Len(found) |-> found[k].score], TRUE)
    IN  [k \in 1..Len(found) |-> found[order[k]]]

\* anchors.sort(key=lambda a: a.time_sec)
sorted_by_time(found) ==
    LET order == StableOrder([k \in 1..Len(found) |-> found[k].time_sec], FALSE)
    IN  [k \in 1..Len(found) |-> found[order[k]]]

\* anchors[:max_anchors]
first_anchors(found, limit) == SubSeq(found, 1, Min(Len(found), limit))

\* the anchors of methods 1, 2 and 3, in the order they are appended
detected_anchors(exc, az, mz, cuts) ==
    LET method2 ==
            add_peaks(find_local_maxima(az, anchor_suppression_window_sec,
                                        audio_peak_threshold),
                      1,
                      excitement_anchors(
                          find_local_maxima(exc, anchor_suppression_window_sec,
                                            anchor_excitement_threshold),
                          az, mz),
                      7, "audio_peak", az, mz)
    IN  IF cuts = <<>> THEN method2
        ELSE add_peaks(
                 find_local_maxima(action_score(mz, cut_density(Len(mz), cuts)),
                                   anchor_suppression_window_sec,
                                   action_peak_threshold),
                 1, method2, 6, "action_sequence", az, mz)

\* the anchors detect_anchors returns for these features
detect_anchors(exc, az, mz, cuts, video_duration) ==
    sorted_by_time(
        first_anchors(sorted_by_score(detected_anchors(exc, az, mz, cuts)),
                      max_anchors(video_duration)))

----------------------------------------------------------------------------
(* Boundary scoring (boundaries.py).  np.exp is tabulated in thousandths,  *)
(* rounded to the nearest, by the distance in ticks.                       *)

boundary_w_scene == 450
boundary_w_audio_dip == 250
boundary_w_fade == 150
boundary_w_motion_valley == 150
boundary_min_spacing_sec == 12
boundary_candidate_threshold == 100
\* a valley spreads to the samples closer than this
valley_spread_sec == 8
\* the weight of one higher-scoring neighbour at distance 0
spacing_penalty_weight == 300

\* np.exp(-distances / decay_sec) for decay_sec = 0.5
proximity_decay ==
    <<1000, 779, 607, 472, 368, 287, 223, 174, 135, 105, 82, 64, 50, 39,
      30, 24, 18, 14, 11, 9, 7, 5, 4, 3, 2, 2, 2, 1, 1, 1, 1>>

\* np.exp(-abs(t - valley_time) / 0.3) below valley_spread_sec
valley_decay ==
    <<1000, 659, 435, 287, 189, 125, 82, 54>>

Distance(a, b) == IF a < b THEN b - a ELSE a - b

proximity(d) == IF d < Len(proximity_decay) THEN proximity_decay[d + 1] ELSE 0

\* np.max of the first n values of an array, n >= 1
MaxOver(arr, n) ==
    LET values == { arr[i] : i \in 1..n }
    IN  CHOOSE x \in values : \A y \in values : x >= y

\* compute_scene_proximity_scores and compute_fade_proximity_scores
compute_proximity_scores(n, event_times) ==
    [i \in 1..n |->
        IF event_times = <<>> THEN 0
        ELSE MaxOver([c \in 1..Len(event_times) |->
                        proximity(Distance((i - 1) * step_sec, event_times[c]))],
                     Len(event_times))]

\* find_valleys: the (time, strength, idx) triples, idx 0-based
find_valleys(arr, min_spacing_sec) ==
    LET n == Len(arr)
        min_spacing_samples == Max(1, min_spacing_sec \div step_sec)
        is_valley(i) ==
            /\ arr[i + 1] < arr[i]
            /\ arr[i + 1] < arr[i + 2]
            /\ LET window_start == Max(0, i - min_spacing_samples)
                   window_end   == Min(n, i + min_spacing_samples + 1)
               IN  \A j \in window_start..(window_end - 1) :
                       arr[j + 1] >= arr[i + 1]
        found == SelectSeq([k \in 1..Max(0, n - 2) |-> k], is_valley)
    IN  [k \in 1..Len(found) |->
            [time |-> found[k] * step_sec,
             strength |-> IF arr[found[k] + 1] < 0 THEN 0 - arr[found[k] + 1]
                          ELSE 0,
             idx |-> found[k]]]

\* the loops of compute_boundary_scores that spread these valleys
spread_valleys(n, valleys) ==
    LET spread(i, v) ==
            LET d == Distance((i - 1) * step_sec, v.time)
            IN  IF d < valley_spread_sec
                THEN (v.strength * valley_decay[d + 1]) \div 1000 ELSE 0
    IN  [i \in 1..n |->
            IF valleys = <<>> THEN 0
            ELSE MaxOver([k \in 1..Len(valleys) |-> spread(i, valleys[k])],
                         Len(valleys))]

valley_scores(arr) ==
    spread_valleys(Len(arr), find_valleys(arr, boundary_min_spacing_sec))

\* compute_boundary_scores without its normalisation
normalize_skipped(arr) == arr

\* normalize of compute_boundary_scores
normalize(arr) ==
    LET max_val == MaxOver(arr, Len(arr))
    IN  IF max_val > 0 THEN [i \in 1..Len(arr) |-> (arr[i] * 1000) \div max_val]
        ELSE arr

\* combined_scores of compute_boundary_scores
combined_scores(scene, audio, fade, motion) ==
    [i \in 1..Len(scene) |->
        (boundary_w_scene * scene[i] + boundary_w_audio_dip * audio[i]
         + boundary_w_fade * fade[i] + boundary_w_motion_valley * motion[i])
            \div 1000]

\* final_scores: the combined scores less the spacing penalty, floored at 0
final_scores(combined) ==
    LET n == Len(combined)
        spacing == boundary_min_spacing_sec \div step_sec
        penalty(i, j) ==
            LET dist == Distance(i * step_sec, j * step_sec)
            IN  IF j # i /\ combined[j + 1] > combined[i + 1]
                   /\ dist < boundary_min_spacing_sec
                THEN (spacing_penalty_weight * (boundary_min_spacing_sec - dist))
                         \div boundary_min_spacing_sec
                ELSE 0
    IN  [i \in 1..n |->
            Max(0, combined[i]
                   - SumSlice([j \in 1..n |-> penalty(i - 1, j - 1)],
                              Max(0, (i - 1) - spacing),
                              Min(n, (i - 1) + spacing + 1)))]

\* the BoundaryCandidate of every sample at or above the threshold
candidates_above(scores, scene, audio, fade, motion) ==
    LET above == SelectSeq([i \in 1..Len(scores) |-> i],
                     LAMBDA i : scores[i] >= boundary_candidate_threshold)
    IN  [k \in 1..Len(above) |->
            [time_sec |-> (above[k] - 1) * step_sec,
             score |-> scores[above[k]],
             scene_strength |-> scene[above[k]],
             audio_dip_strength |-> audio[above[k]],
             fade_strength |-> fade[above[k]],
             motion_valley_strength |-> motion[above[k]]]]

\* the candidates for the four normalized component scores
score_candidates(scene, audio, fade, motion) ==
    candidates_above(final_scores(combined_scores(scene, audio, fade, motion)),
                     scene, audio, fade, motion)

\* the candidates compute_boundary_scores returns for these features
compute_boundary_scores(az, mz, cuts, fades, video_duration) ==
    score_candidates(normalize(compute_proximity_scores(Len(az), cuts)),
                     normalize(valley_scores(az)),
                     normalize(compute_proximity_scores(Len(az), fades)),
                     normalize(valley_scores(mz)))

----------------------------------------------------------------------------
(* Inputs of select_windows                                                *)

Durations == { min_clip_seconds + 2 * q : q \in (0 - DurationSpread)..DurationSpread }

\* excitement arrays: silence, or one burst of three samples
ExcitementProfiles(d) ==
    LET n == num_samples(d)
    IN  { [i \in 1..n |-> 0] } \cup
        { [i \in 1..n |-> IF i \in from..(from + 2) THEN 1500 ELSE 0] :
            from \in {5} }

\* boundary candidates sit on whole seconds of the sample grid
BoundaryTimes(d) == { t \in times(d) : t % (2 * step_sec) = 0 }
BoundaryScores == {300, 400}

RECURSIVE BoundaryLists(_, _, _)
\* the time-ordered lists of at most n candidates later than `after`
BoundaryLists(d, after, n) ==
    { <<>> } \cup
    IF n = 0 THEN {}
    ELSE UNION { { <<[time_sec |-> t, score |-> s]>> \o rest :
                     rest \in BoundaryLists(d, t, n - 1) } :
                 t \in { u \in BoundaryTimes(d) : u > after },
                 s \in BoundaryScores }

AnchorScores == {600}

CacheIdle ==
    /\ disk = [exists |-> FALSE, chunks |-> <<>>]
    /\ cpc = <<>>
    /\ offset = <<>>
    /\ observed = <<>>

LmIdle ==
    /\ lm_in = <<>>
    /\ lm_selected = <<>>
    /\ lm_pc = "idle"

SegIdle ==
    /\ seg_in = <<>>
    /\ segments = <<>>
    /\ seg_pc = "idle"
    /\ seg_aux = <<>>

JobsIdle ==
    /\ job_status = <<>>
    /\ running_jobs = {}
    /\ job_task = <<>>
    /\ job_aux = <<>>

PipeIdle ==
    /\ config = [cache_version |-> "v2.0.0", write_debug_json |-> TRUE,
                 write_debug_plot |-> FALSE, step_sec |-> step_sec]
    /\ cache_file = [kind |-> "absent", version |-> "none", keys_ok |-> FALSE,
                     signals |-> <<>>, step_sec |-> 0]
    /\ pc = "idle"
    /\ progress = <<>>
    /\ features = [version |-> "none", signals |-> <<>>, step_sec |-> 0]
    /\ data = [kind |-> "unread", version |-> "none", keys_ok |-> FALSE,
               signals |-> <<>>, step_sec |-> 0]
    /\ cache_hit = FALSE
    /\ tasks = <<>>
    /\ save_error = FALSE
    /\ debug_error = FALSE
    /\ debug_json = "none"
    /\ debug_plot = "none"
    /\ result = "pending"
    /\ runs = 0
    /\ cancelled = "no"

StageIdle ==
    /\ audio_rms_z = <<>>
    /\ motion_score_z = <<>>
    /\ scene_cuts = <<>>
    /\ fade_timestamps = <<>>
    /\ frame_hash = "none"
    /\ spc = "idle"
    /\ rerun = <<>>

EventsIdle ==
    /\ reported = [duration |-> 0, scene |-> <<>>, black |-> <<>>,
                   freeze |-> <<>>]
    /\ event_lists = [built |-> FALSE, scene_cuts |-> <<>>,
                      fade_timestamps |-> <<>>, freeze_timestamps |-> <<>>]

FilterIdle ==
    /\ fin = <<>>
    /\ fkept = <<>>
    /\ fdec = <<>>
    /\ final = <<>>
    /\ fpc = "idle"

WinIdle ==
    /\ duration = 0
    /\ excitement = <<>>
    /\ boundaries = <<>>
    /\ anchors = <<>>
    /\ windows = <<>>
    /\ wpc = "idle"

InitWindows ==
    /\ LmIdle
    /\ SegIdle
    /\ JobsIdle
    /\ duration \in Durations
    /\ excitement \in ExcitementProfiles(duration)
    /\ boundaries \in BoundaryLists(duration, -1, MaxBoundaries)
    /\ anchors = <<>>
    /\ windows = <<>>
    /\ wpc = "loop"
    /\ FilterIdle
    /\ PipeIdle
    /\ CacheIdle
    /\ StageIdle
    /\ EventsIdle

\* one iteration of `for anchor in anchors`; the anchors come in time order
SelectWindowsIter ==
    /\ wpc = "loop"
    /\ Len(anchors) < MaxAnchors
    /\ \E t \in times(duration), sc \in AnchorScores :
         /\ anchors # <<>> => t > anchors[Len(anchors)].time_sec
         /\ LET anchor == [time_sec |-> t, score |-> sc]
            IN  /\ anchors' = Append(anchors, anchor)
                /\ windows' = windows \o
                       clip_window(anchor, boundaries, excitement, duration)
    /\ UNCHANGED <<duration, excitement, boundaries, wpc>>
    /\ UNCHANGED notWinVars

\* the loop is over: return windows
SelectWindowsReturn ==
    /\ wpc = "loop"
    /\ wpc' = "returned"
    /\ UNCHANGED <<duration, excitement, boundaries, anchors, windows>>
    /\ UNCHANGED notWinVars

NextWindows == SelectWindowsIter \/ SelectWindowsReturn

SpecWindows == InitWindows /\ [][NextWindows]_vars

-----------------------------------------------------------------------------
(* End selection on videos longer than max_clip_seconds, for every start   *)
(* at or before the anchor (select_end_boundary takes the start as an      *)
(* argument)                                                               *)

\* the grid the anchors, starts and boundaries of these videos sit on: 20 s
EndGrid == 160

LongDurations == { max_clip_seconds + EndGrid * q : q \in 1..DurationSpread }

EndTimes(d) == { t \in times(d) : t % EndGrid = 0 }

RECURSIVE EndBoundaryLists(_, _, _)
\* the time-ordered lists of at most n candidates later than `after`
EndBoundaryLists(d, after, n) ==
    { <<>> } \cup
    IF n = 0 THEN {}
    ELSE UNION { { <<[time_sec |-> t, score |-> sc]>> \o rest :
                     rest \in EndBoundaryLists(d, t, n - 1) } :
                 t \in { u \in EndTimes(d) : u > after }, sc \in BoundaryScores }

InitEnds ==
    /\ LmIdle
    /\ SegIdle
    /\ JobsIdle
    /\ duration \in LongDurations
    /\ excitement = [i \in 1..num_samples(duration) |-> 0]
    /\ boundaries \in EndBoundaryLists(duration, -1, MaxBoundaries)
    /\ anchors = <<>>
    /\ windows = <<>>
    /\ wpc = "loop"
    /\ FilterIdle
    /\ PipeIdle
    /\ CacheIdle
    /\ StageIdle
    /\ EventsIdle

\* one iteration of the loop whose start selection gave start_time
SelectEndBoundary ==
    /\ wpc = "loop"
    /\ Len(anchors) < MaxAnchors
    /\ \E t \in EndTimes(duration), start_time \in EndTimes(duration), sc \in AnchorScores :
         /\ anchors # <<>> => t > anchors[Len(anchors)].time_sec
         /\ start_time <= t
         /\ LET anchor == [time_sec |-> t, score |-> sc]
                s == [time |-> start_time, score |-> 0, reason |-> "fallback_offset"]
            IN  /\ anchors' = Append(anchors, anchor)
                /\ windows' = windows \o
                       clip_window_from(anchor, s, boundaries, excitement, duration)
    /\ UNCHANGED <<duration, excitement, boundaries, wpc>>
    /\ UNCHANGED notWinVars

NextEnds == SelectEndBoundary

SpecEnds == InitEnds /\ [][NextEnds]_vars

----------------------------------------------------------------------------
(* Inputs of apply_post_filters                                            *)

\* a 60 s video: loud over its first 22.5 s and again from 35 s to 40 s
FilterDuration == 12 * min_clip_seconds
FilterExcitement ==
    [i \in 1..num_samples(FilterDuration) |->
        IF i \in 1..46 \/ i \in 71..81 THEN 400 ELSE 0]

\* the windows the candidates are drawn from, in anchor order, as
\* select_windows emits them: the second starts before the first, the second
\* and third have an IoU of exactly 0.35, the fourth starts exactly 30 s
\* after the second, the fifth is more than 30 s from the first three and
\* lies in a quiet stretch, the sixth starts more than 30 s after the first
\* two and its anchor is too strong for it to be boring
FilterIntervals ==
    << [start_sec |-> 16,  end_sec |-> 112, anchor_time_sec |-> 64,
        anchor_score |-> 600],
       [start_sec |-> 0,   end_sec |-> 108, anchor_time_sec |-> 80,
        anchor_score |-> 600],
       [start_sec |-> 52,  end_sec |-> 160, anchor_time_sec |-> 96,
        anchor_score |-> 400],
       [start_sec |-> 240, end_sec |-> 320, anchor_time_sec |-> 280,
        anchor_score |-> 400],
       [start_sec |-> 360, end_sec |-> 440, anchor_time_sec |-> 400,
        anchor_score |-> 400],
       [start_sec |-> 260, end_sec |-> 340, anchor_time_sec |-> 420,
        anchor_score |-> 600] >>

QualityScores == {300, 600, 900}
\* what simple_frame_hash answers for a window's middle frame; "none" when
\* the frame grab fails
FrameHashes == {"h1", "h2", "none"}

\* position of a candidate in FilterIntervals; 0 for no candidate yet
interval_of(ws) ==
    IF ws = <<>> THEN 0
    ELSE CHOOSE k \in 1..Len(FilterIntervals) :
            FilterIntervals[k].anchor_time_sec = ws[Len(ws)].anchor_time_sec

InitFilters ==
    /\ LmIdle
    /\ SegIdle
    /\ JobsIdle
    /\ duration = FilterDuration
    /\ excitement = FilterExcitement
    /\ boundaries = <<>>
    /\ anchors = <<>>
    /\ windows = <<>>
    /\ wpc = "idle"
    /\ fin = <<>>
    /\ fkept = <<>>
    /\ fdec = <<>>
    /\ final = <<>>
    /\ fpc = "building"
    /\ PipeIdle
    /\ CacheIdle
    /\ StageIdle
    /\ EventsIdle

\* the caller's candidate list grows by one window, later in anchor order
AppendCandidate ==
    /\ fpc = "building"
    /\ Len(fin) < MaxWindows
    /\ \E k \in (interval_of(fin) + 1)..Len(FilterIntervals),
          q \in QualityScores, h \in FrameHashes :
         fin' = Append(fin,
                   [start_sec |-> FilterIntervals[k].start_sec,
                    end_sec |-> FilterIntervals[k].end_sec,
                    anchor_time_sec |-> FilterIntervals[k].anchor_time_sec,
                    anchor_score |-> FilterIntervals[k].anchor_score,
                    quality_score |-> q, mid_hash |-> h])
    /\ UNCHANGED <<fkept, fdec, final, fpc>>
    /\ UNCHANGED notFilterVars

\* apply_post_filters(windows, features, video_path, config)
ApplyPostFilters ==
    /\ fpc = "building"
    /\ LET r == apply_post_filters(fin, excitement)
       IN  /\ fkept' = r.kept
           /\ fdec' = r.decisions
           /\ final' = r.windows
    /\ fpc' = "returned"
    /\ UNCHANGED <<fin>>
    /\ UNCHANGED notFilterVars

NextFilters == AppendCandidate \/ ApplyPostFilters

SpecFilters == InitFilters /\ [][NextFilters]_vars

----------------------------------------------------------------------------
(* Feature cache (features.py) and the pipeline runner (runner.py)         *)

\* config.cache_version: the default, and a bumped one
Versions == {"v2.0.0", "v2.1.0"}

\* config.step_sec: the default 0.5 s, and 1.0 s
StepSecs == {step_sec, 2 * step_sec}

\* the signals asyncio.gather extracts concurrently
Signals == {"audio", "motion", "scene"}

\* all signals of an ExtractedFeatures
AllSignals == Signals \cup {"fade", "freeze"}

NoFeatures == [version |-> "none", signals |-> <<>>, step_sec |-> 0]

\* the content of features_v2.json: no file, bytes that are no JSON document,
\* or a JSON object with or without a "version" and the other keys
CacheAbsent  == [kind |-> "absent", version |-> "none", keys_ok |-> FALSE,
                 signals |-> <<>>, step_sec |-> 0]
CacheCorrupt == [kind |-> "corrupt", version |-> "none", keys_ok |-> FALSE,
                 signals |-> <<>>, step_sec |-> 0]

\* save_features_cache that writes no file for features with a neutral signal
cache_payload_unless_degraded(f) ==
    IF \E t \in AllSignals : f.signals[t] = "neutral" THEN CacheAbsent
    ELSE [kind |-> "json", version |-> f.version, keys_ok |-> TRUE,
          signals |-> f.signals, step_sec |-> f.step_sec]

\* json.dump(features.to_dict(), f), written through
cache_payload(f) ==
    [kind |-> "json", version |-> f.version, keys_ok |-> TRUE,
     signals |-> f.signals, step_sec |-> f.step_sec]

\* load_cached_features without the version comparison
load_cached_features_any_version(file, cache_version) ==
    IF file.kind = "absent" THEN NoFeatures
    ELSE IF file.kind = "corrupt" THEN NoFeatures
    ELSE IF ~file.keys_ok THEN NoFeatures
    ELSE [version |-> file.version, signals |-> file.signals,
          step_sec |-> file.step_sec]

\* None, or ExtractedFeatures.from_dict(data)
load_cached_features(file, cache_version) ==
    IF file.kind = "absent" THEN NoFeatures
    ELSE IF file.kind = "corrupt" THEN NoFeatures
    ELSE IF file.version # cache_version THEN NoFeatures
    ELSE IF ~file.keys_ok THEN NoFeatures
    ELSE [version |-> file.version, signals |-> file.signals,
          step_sec |-> file.step_sec]

\* mapped_pct = 5 + (pct / 100) * 35, in hundredths of a percent
feature_progress(pct) == 500 + pct * 35

\* the pct each extraction task reports when its decoder call succeeded
task_pct(t) ==
    CASE t = "audio"  -> 25
      [] t = "motion" -> 50
      [] t = "scene"  -> 65

\* extract_features in which one failed decoder call voids every signal
extract_features_all_or_nothing(task_state, cfg) ==
    [version |-> cfg.cache_version,
     step_sec |-> cfg.step_sec,
     signals |-> [t \in AllSignals |->
                    IF \A u \in AllSignals : task_state[u] # "failed"
                    THEN IF task_state[t] = "done" THEN "ok" ELSE "neutral"
                    ELSE "neutral"]]

\* the ExtractedFeatures extract_features builds: "ok" is the value computed
\* from the decoder's output, "neutral" the zero array or the empty list
extract_features(task_state, cfg) ==
    [version |-> cfg.cache_version,
     step_sec |-> cfg.step_sec,
     signals |-> [t \in AllSignals |->
                    IF task_state[t] = "done" THEN "ok" ELSE "neutral"]]

InitPipeline ==
    /\ LmIdle
    /\ SegIdle
    /\ JobsIdle
    /\ WinIdle
    /\ FilterIdle
    /\ CacheIdle
    /\ StageIdle
    /\ EventsIdle
    /\ config \in [cache_version : Versions, step_sec : {step_sec},
                   write_debug_json : BOOLEAN, write_debug_plot : BOOLEAN]
    /\ cache_file \in
         {CacheAbsent, CacheCorrupt} \cup
         [kind : {"json"}, version : Versions \cup {"missing"},
          keys_ok : BOOLEAN, signals : {[t \in AllSignals |-> "ok"]},
          step_sec : {step_sec}]
    /\ pc = "start"
    /\ progress = <<>>
    /\ features = NoFeatures
    /\ data = [kind |-> "unread", version |-> "none", keys_ok |-> FALSE,
               signals |-> <<>>, step_sec |-> 0]
    /\ cache_hit = FALSE
    /\ tasks = [t \in AllSignals |-> "idle"]
    /\ save_error = FALSE
    /\ debug_error = FALSE
    /\ debug_json = "none"
    /\ debug_plot = "none"
    /\ result = "pending"
    /\ runs = 1
    /\ cancelled = "no"

\* await report_progress(pct, msg)
report(log, pct) == Append(log, pct * 100)

\* report_progress(0, ...)
StartPipeline ==
    /\ pc = "start"
    /\ progress' = report(progress, 0)
    /\ pc' = "load"
    /\ UNCHANGED <<config, data, cache_file, features, cache_hit, tasks, save_error,
                   debug_error, debug_json, debug_plot, result, runs, cancelled>>
    /\ UNCHANGED notPipeVars

\* load_cached_features returned features: report_progress(40, ...)
LoadCacheHit ==
    /\ pc = "load"
    /\ load_cached_features(cache_file, config.cache_version) # NoFeatures
    /\ features' = load_cached_features(cache_file, config.cache_version)
    /\ data' = cache_file
    /\ cache_hit' = TRUE
    /\ progress' = report(progress, 40)
    /\ pc' = "anchors"
    /\ UNCHANGED <<config, cache_file, tasks, save_error, debug_error,
                   debug_json, debug_plot, result, runs, cancelled>>
    /\ UNCHANGED notPipeVars

\* load_cached_features returned None: report_progress(5, ...), and
\* extract_features starts the audio, motion and scene tasks
LoadCacheMiss ==
    /\ pc = "load"
    /\ load_cached_features(cache_file, config.cache_version) = NoFeatures
    /\ data' = cache_file
    /\ progress' = report(progress, 5)
    /\ tasks' = [t \in AllSignals |->
                    IF t \in Signals THEN "running" ELSE "idle"]
    /\ pc' = "gather"
    /\ UNCHANGED <<config, cache_file, features, cache_hit, save_error,
                   debug_error, debug_json, debug_plot, result, runs, cancelled>>
    /\ UNCHANGED notPipeVars

\* one of the gathered tasks gets its decoder output and reports its pct
TaskDone ==
    /\ pc = "gather"
    /\ \E t \in Signals :
         /\ tasks[t] = "running"
         /\ tasks' = [tasks EXCEPT ![t] = "done"]
         /\ progress' = Append(progress, feature_progress(task_pct(t)))
    /\ UNCHANGED <<config, data, cache_file, features, cache_hit, pc, save_error,
                   debug_error, debug_json, debug_plot, result, runs, cancelled>>
    /\ UNCHANGED notPipeVars

\* the decoder call of one of the gathered tasks fails: neutral value, no report
TaskFailed ==
    /\ pc = "gather"
    /\ \E t \in Signals :
         /\ tasks[t] = "running"
         /\ tasks' = [tasks EXCEPT ![t] = "failed"]
    /\ UNCHANGED <<config, data, cache_file, features, cache_hit, pc, progress,
                   save_error, debug_error, debug_json, debug_plot, result, runs, cancelled>>
    /\ UNCHANGED notPipeVars

\* asyncio.gather returned; detect_fades_and_freezes runs the black
\* detection: its timestamps, or none when the decoder call raised
DetectFades ==
    /\ pc = "gather"
    /\ \A t \in Signals : tasks[t] \in {"done", "failed"}
    /\ \E outcome \in {"done", "failed"} :
         tasks' = [tasks EXCEPT !["fade"] = outcome]
    /\ pc' = "fades"
    /\ UNCHANGED <<config, data, cache_file, features, cache_hit, progress,
                   save_error, debug_error, debug_json, debug_plot, result,
                   runs, cancelled>>
    /\ UNCHANGED notPipeVars

\* the freeze detection, skipped when duration >= 600; then
\* detect_fades_and_freezes reports 75 and returns
DetectFreezes ==
    /\ pc = "fades"
    /\ \E outcome \in {"done", "failed", "skipped"} :
         tasks' = [tasks EXCEPT !["freeze"] = outcome]
    /\ progress' = Append(progress, feature_progress(75))
    /\ pc' = "extracted"
    /\ UNCHANGED <<config, data, cache_file, features, cache_hit,
                   save_error, debug_error, debug_json, debug_plot, result,
                   runs, cancelled>>
    /\ UNCHANGED notPipeVars

\* extract_features pads the arrays, computes the z-scores and the
\* excitement, reports 80 and returns the ExtractedFeatures
FeaturesExtracted ==
    /\ pc = "extracted"
    /\ progress' = Append(progress, feature_progress(80))
    /\ features' = extract_features(tasks, config)
    /\ pc' = "save"
    /\ UNCHANGED <<config, data, cache_file, cache_hit, tasks, save_error,
                   debug_error, debug_json, debug_plot, result, runs, cancelled>>
    /\ UNCHANGED notPipeVars

\* save_features_cache wrote the file: report_progress(40, "Features cached")
SaveCache ==
    /\ pc = "save"
    /\ cache_file' = cache_payload(features)
    /\ progress' = report(progress, 40)
    /\ pc' = "anchors"
    /\ UNCHANGED <<config, data, features, cache_hit, tasks, save_error, debug_error,
                   debug_json, debug_plot, result, runs, cancelled>>
    /\ UNCHANGED notPipeVars

\* mkdir, open or json.dump raised inside save_features_cache: nothing in
\* save_features_cache or run_v2_pipeline catches it.  The file is as it was
\* (mkdir or open failed) or holds a truncated document (the dump failed).
SaveCacheFails ==
    /\ pc = "save"
    /\ cache_file' \in {cache_file, CacheCorrupt}
    /\ save_error' = TRUE
    /\ result' = "raised"
    /\ pc' = "done"
    /\ UNCHANGED <<config, data, features, cache_hit, tasks, progress, debug_error,
                   debug_json, debug_plot, runs, cancelled>>
    /\ UNCHANGED notPipeVars

\* stage 2: report_progress(45), detect_anchors, report_progress(55)
DetectAnchors ==
    /\ pc = "anchors"
    /\ progress' = progress \o <<4500, 5500>>
    /\ pc' = "boundaries"
    /\ UNCHANGED <<config, data, cache_file, features, cache_hit, tasks, save_error,
                   debug_error, debug_json, debug_plot, result, runs, cancelled>>
    /\ UNCHANGED notPipeVars

\* stage 3: report_progress(60), compute_boundary_scores, report_progress(70)
ComputeBoundaries ==
    /\ pc = "boundaries"
    /\ progress' = progress \o <<6000, 7000>>
    /\ pc' = "windows"
    /\ UNCHANGED <<config, data, cache_file, features, cache_hit, tasks, save_error,
                   debug_error, debug_json, debug_plot, result, runs, cancelled>>
    /\ UNCHANGED notPipeVars

\* stage 4: report_progress(75), select_windows, report_progress(80)
SelectWindows ==
    /\ pc = "windows"
    /\ progress' = progress \o <<7500, 8000>>
    /\ pc' = "filters"
    /\ UNCHANGED <<config, data, cache_file, features, cache_hit, tasks, save_error,
                   debug_error, debug_json, debug_plot, result, runs, cancelled>>
    /\ UNCHANGED notPipeVars

\* stage 5: report_progress(82), apply_post_filters, report_progress(90)
PostFilters ==
    /\ pc = "filters"
    /\ progress' = progress \o <<8200, 9000>>
    /\ pc' = "debug"
    /\ UNCHANGED <<config, data, cache_file, features, cache_hit, tasks, save_error,
                   debug_error, debug_json, debug_plot, result, runs, cancelled>>
    /\ UNCHANGED notPipeVars

\* stage 6 without a failing write: write_debug_json when configured, then
\* write_debug_plot when configured (it catches its own errors), then
\* report_progress(95, ...) and the result bundle
WriteDebugAndReturn ==
    /\ pc = "debug"
    /\ debug_json' = IF config.write_debug_json THEN "written" ELSE debug_json
    /\ IF config.write_debug_plot
       THEN debug_plot' \in {"written", "failed"}
       ELSE debug_plot' = debug_plot
    /\ progress' = report(progress, 95)
    /\ result' = "returned"
    /\ pc' = "done"
    /\ UNCHANGED <<config, data, cache_file, features, cache_hit, tasks, save_error,
                   debug_error, runs, cancelled>>
    /\ UNCHANGED notPipeVars

\* mkdir, open or json.dump raised inside write_debug_json: nothing in
\* write_debug_json or run_v2_pipeline catches it
WriteDebugJsonFails ==
    /\ pc = "debug"
    /\ config.write_debug_json
    /\ debug_error' = TRUE
    /\ debug_json' = "failed"
    /\ result' = "raised"
    /\ pc' = "done"
    /\ UNCHANGED <<config, data, cache_file, features, cache_hit, tasks, save_error,
                   progress, debug_plot, runs, cancelled>>
    /\ UNCHANGED notPipeVars

\* a cancellation that saves what has been extracted so far on its way out
CancelSavingPartial ==
    /\ pc \in {"start", "load", "gather", "fades", "extracted", "anchors",
               "boundaries", "windows", "filters", "debug"}
    /\ cache_file' = cache_payload(extract_features(tasks, config))
    /\ cancelled' = pc
    /\ result' = "cancelled"
    /\ pc' = "done"
    /\ UNCHANGED <<config, data, features, cache_hit, tasks,
                   progress, save_error, debug_error, debug_json, debug_plot,
                   runs>>
    /\ UNCHANGED notPipeVars

\* the host cancels the task running run_v2_pipeline: CancelledError is
\* raised at the await the invocation is suspended in (a progress report or a
\* decoder call) and no except clause catches it.  There is no await between
\* the return of extract_features and save_features_cache.
Cancel ==
    /\ pc \in {"start", "load", "gather", "fades", "extracted", "anchors",
               "boundaries", "windows", "filters", "debug"}
    /\ cancelled' = pc
    /\ result' = "cancelled"
    /\ pc' = "done"
    /\ UNCHANGED <<config, data, cache_file, features, cache_hit, tasks,
                   progress, save_error, debug_error, debug_json, debug_plot,
                   runs>>
    /\ UNCHANGED notPipeVars

\* the host invokes run_v2_pipeline again on the same project directory,
\* possibly with a bumped cache_version or another step_sec
NextRun ==
    /\ pc = "done"
    /\ runs < MaxRuns
    /\ runs' = runs + 1
    /\ \E v \in Versions, s \in StepSecs :
         config' = [config EXCEPT !.cache_version = v, !.step_sec = s]
    /\ pc' = "start"
    /\ progress' = <<>>
    /\ features' = NoFeatures
    /\ data' = [kind |-> "unread", version |-> "none", keys_ok |-> FALSE,
                signals |-> <<>>, step_sec |-> 0]
    /\ cache_hit' = FALSE
    /\ tasks' = [t \in AllSignals |-> "idle"]
    /\ save_error' = FALSE
    /\ debug_error' = FALSE
    /\ debug_json' = "none"
    /\ debug_plot' = "none"
    /\ result' = "pending"
    /\ cancelled' = "no"
    /\ UNCHANGED cache_file
    /\ UNCHANGED notPipeVars

NextPipeline ==
    \/ StartPipeline
    \/ LoadCacheHit
    \/ LoadCacheMiss
    \/ TaskDone
    \/ TaskFailed
    \/ DetectFades
    \/ DetectFreezes
    \/ FeaturesExtracted
    \/ SaveCache
    \/ SaveCacheFails
    \/ DetectAnchors
    \/ ComputeBoundaries
    \/ SelectWindows
    \/ PostFilters
    \/ WriteDebugAndReturn
    \/ WriteDebugJsonFails
    \/ Cancel
    \/ NextRun

SpecPipeline == InitPipeline /\ [][NextPipeline]_vars

Spec == SpecPipeline

----------------------------------------------------------------------------
(* features_v2.json under invocations running in separate processes (the   *)
(* server and analyze_v2_cli.py on one project directory).                 *)
(* save_features_cache opens the file itself with mode 'w' and json.dump   *)
(* reaches it in several writes; load_cached_features reads what is there. *)

Invocations == 1..NumInvocations

\* the serialized features of invocation w, as the chunks the dump writes;
\* invocation 0 stands for an earlier run under an older cache_version
payload(w) == [k \in 1..ChunksPerPayload |-> [w |-> w, k |-> k]]

\* bytes a write past the end of a truncated file leaves behind it
Hole == [w |-> -1, k |-> 0]

\* what json.load makes of the file
read_cache(file) ==
    IF ~file.exists THEN "absent"
    ELSE IF \E w \in 0..NumInvocations : file.chunks = payload(w) THEN "complete"
    ELSE "partial"

\* load_cached_features returns features: a complete document of the
\* current cache_version
cache_loads(file) ==
    \E w \in Invocations : file.exists /\ file.chunks = payload(w)

\* f.write(chunk) at position pos (0-based) of the open file
write_at(chunks, pos, chunk) ==
    IF pos < Len(chunks) THEN [chunks EXCEPT ![pos + 1] = chunk]
    ELSE chunks \o [i \in 1..(pos - Len(chunks)) |-> Hole] \o <<chunk>>

InitCache ==
    /\ LmIdle
    /\ SegIdle
    /\ JobsIdle
    /\ WinIdle
    /\ FilterIdle
    /\ PipeIdle
    /\ StageIdle
    /\ EventsIdle
    /\ disk \in { [exists |-> FALSE, chunks |-> <<>>],
                  [exists |-> TRUE, chunks |-> payload(0)] }
    /\ cpc = [p \in Invocations |-> "load"]
    /\ offset = [p \in Invocations |-> 0]
    /\ observed = [p \in Invocations |-> "none"]

\* load_cached_features(features_cache_path, config)
CacheLoad(p) ==
    /\ cpc[p] = "load"
    /\ observed' = [observed EXCEPT ![p] = read_cache(disk)]
    /\ cpc' = [cpc EXCEPT ![p] = IF cache_loads(disk) THEN "done" ELSE "extract"]
    /\ UNCHANGED <<disk, offset>>
    /\ UNCHANGED notCacheVars

\* await extract_features(...)
CacheExtract(p) ==
    /\ cpc[p] = "extract"
    /\ cpc' = [cpc EXCEPT ![p] = "open"]
    /\ UNCHANGED <<disk, offset, observed>>
    /\ UNCHANGED notCacheVars

\* open(cache_path, 'w'): the file exists and is empty
CacheOpen(p) ==
    /\ cpc[p] = "open"
    /\ disk' = [exists |-> TRUE, chunks |-> <<>>]
    /\ offset' = [offset EXCEPT ![p] = 0]
    /\ cpc' = [cpc EXCEPT ![p] = "write"]
    /\ UNCHANGED observed
    /\ UNCHANGED notCacheVars

\* json.dump: the next chunk goes to the file at this writer's position
CacheWrite(p) ==
    /\ cpc[p] = "write"
    /\ offset[p] < ChunksPerPayload
    /\ disk' = [disk EXCEPT
                  !.chunks = write_at(@, offset[p], payload(p)[offset[p] + 1])]
    /\ offset' = [offset EXCEPT ![p] = @ + 1]
    /\ UNCHANGED <<cpc, observed>>
    /\ UNCHANGED notCacheVars

\* the with block closes the file
CacheClose(p) ==
    /\ cpc[p] = "write"
    /\ offset[p] = ChunksPerPayload
    /\ cpc' = [cpc EXCEPT ![p] = "done"]
    /\ UNCHANGED <<disk, offset, observed>>
    /\ UNCHANGED notCacheVars

NextCache ==
    \E p \in Invocations :
        \/ CacheLoad(p)
        \/ CacheExtract(p)
        \/ CacheOpen(p)
        \/ CacheWrite(p)
        \/ CacheClose(p)

SpecCache == InitCache /\ [][NextCache]_vars

----------------------------------------------------------------------------
(* The event lists of extract_features (features.py): what                 *)
(* detect_scene_cuts and detect_fades_and_freezes make of the timestamps   *)
(* the decoder prints                                                      *)

\* freeze detection runs only for videos shorter than 600 s
freeze_max_duration == 4800

\* sorted(set(xs)) for a set of numbers
RECURSIVE sorted_set(_)
sorted_set(S) ==
    IF S = {} THEN <<>>
    ELSE LET m == CHOOSE x \in S : \A y \in S : x <= y
         IN  <<m>> \o sorted_set(S \ {m})

\* the elements of a list, as a set
elements(xs) == { xs[i] : i \in 1..Len(xs) }

\* the list detect_scene_cuts returns for the pts_time values printed
detect_scene_cuts(pts_times) ==
    LET positive(ts) == ts > 0
        cuts == SelectSeq(pts_times, positive)
    IN  sorted_set(elements(cuts))

\* the lists detect_fades_and_freezes returns for the black_start/black_end
\* pairs and the freeze_start values printed
detect_fades_and_freezes(video_duration, black, freeze_starts) ==
    LET fades == { black[i].black_start : i \in 1..Len(black) }
                 \cup { black[i].black_end : i \in 1..Len(black) }
        freezes == IF video_duration < freeze_max_duration
                   THEN elements(freeze_starts) ELSE {}
    IN  [fade_timestamps |-> sorted_set(fades),
         freeze_timestamps |-> sorted_set(freezes)]

\* durations of the videos: one below and one at the freeze detection limit
EventDurations == {min_clip_seconds, freeze_max_duration}

\* timestamps a decoder prints: the first frame, inside the video, the end
\* of the video and past it
EventTimes(d) == {0, step_sec, 2 * step_sec, d, d + step_sec}

InitEvents ==
    /\ LmIdle
    /\ SegIdle
    /\ JobsIdle
    /\ WinIdle
    /\ FilterIdle
    /\ PipeIdle
    /\ CacheIdle
    /\ StageIdle
    /\ reported \in [duration : EventDurations, scene : {<<>>},
                     black : {<<>>}, freeze : {<<>>}]
    /\ event_lists = [built |-> FALSE, scene_cuts |-> <<>>,
                      fade_timestamps |-> <<>>, freeze_timestamps |-> <<>>]

\* the scene filter prints one more pts_time
ReportSceneEvent ==
    /\ ~event_lists.built
    /\ Len(reported.scene) < MaxEvents
    /\ \E ts \in EventTimes(reported.duration) :
         /\ \A i \in 1..Len(reported.scene) : reported.scene[i] <= ts
         /\ reported' = [reported EXCEPT !.scene = Append(@, ts)]
    /\ UNCHANGED event_lists
    /\ UNCHANGED notEventVars

\* blackdetect prints one more black_start / black_end line
ReportBlackEvent ==
    /\ ~event_lists.built
    /\ Len(reported.black) < MaxEvents
    /\ \E b \in EventTimes(reported.duration),
          e \in EventTimes(reported.duration) :
         /\ b < e
         /\ \A i \in 1..Len(reported.black) : reported.black[i].black_end <= b
         /\ reported' = [reported EXCEPT
                           !.black = Append(@, [black_start |-> b,
                                                black_end |-> e])]
    /\ UNCHANGED event_lists
    /\ UNCHANGED notEventVars

\* freezedetect prints one more freeze_start
ReportFreezeEvent ==
    /\ ~event_lists.built
    /\ Len(reported.freeze) < MaxEvents
    /\ \E ts \in EventTimes(reported.duration) :
         /\ \A i \in 1..Len(reported.freeze) : reported.freeze[i] <= ts
         /\ reported' = [reported EXCEPT !.freeze = Append(@, ts)]
    /\ UNCHANGED event_lists
    /\ UNCHANGED notEventVars

\* the decoders have exited: the three lists of the ExtractedFeatures
BuildEventLists ==
    /\ ~event_lists.built
    /\ LET ff == detect_fades_and_freezes(reported.duration, reported.black,
                                          reported.freeze)
       IN  event_lists' = [built |-> TRUE,
                           scene_cuts |-> detect_scene_cuts(reported.scene),
                           fade_timestamps |-> ff.fade_timestamps,
                           freeze_timestamps |-> ff.freeze_timestamps]
    /\ UNCHANGED reported
    /\ UNCHANGED notEventVars

NextEvents ==
    \/ ReportSceneEvent
    \/ ReportBlackEvent
    \/ ReportFreezeEvent
    \/ BuildEventLists

SpecEvents == InitEvents /\ [][NextEvents]_vars

----------------------------------------------------------------------------
(* The stages of run_v2_pipeline on one ExtractedFeatures: detect_anchors, *)
(* compute_boundary_scores, select_windows and apply_post_filters, run     *)
(* twice on the same features and decoder output.                          *)

notStageVars == <<pipeVars, cacheVars, eventVars, lmVars, segVars, jobVars>>

\* excitement as extract_features derives it from the two z-score arrays
combined_excitement(az, mz) ==
    [i \in 1..Len(az) |->
        (600 * Max(0, az[i]) + 400 * Max(0, mz[i])) \div 1000]

\* a z-score array with a peak every period samples, a dip half a period
\* after each peak, and peaks that grow or shrink by trend per period
Signal(n, period, phase, peak, trend, dip) ==
    [i \in 1..n |->
        LET pos == ((i - 1) + period - phase) % period
        IN  IF pos = 0 /\ peak > 0 THEN peak + trend * ((i - 1) \div period)
            ELSE IF pos = period \div 2 THEN dip
            ELSE 0]

\* a video shorter than min_clip_seconds, one of a few windows, and one
\* long enough for more anchors than min_max_anchors (of these only the
\* ones with scene cuts, a fade, strong motion and a changing picture)
LongDuration == (min_max_anchors + 3) * anchor_suppression_window_sec

StageDurations ==
    { min_clip_seconds - 2 * step_sec,
      3 * anchor_suppression_window_sec,
      LongDuration }

Periods == {6, 9}
Peaks == { <<0, 0>>, <<2000, 0>>, <<2000, 50>>, <<2000, -50>> }
Dips == {0, -2000}

AudioSignals(n) ==
    { Signal(n, p, 4, pk[1], pk[2], dp) : p \in Periods, pk \in Peaks, dp \in Dips }

MotionSignals(n) ==
    { Signal(n, 8, 2, pk[1], pk[2], -1000) : pk \in {<<0, 0>>, <<1800, 50>>, <<700, 0>>} }

\* event lists as detect_scene_cuts and detect_fades_and_freezes build them
SceneCutLists == { <<>>, <<20>>, <<36, 40, 90>> }
FadeLists == { <<>>, <<24>> }

\* the decoder's frames: every grab fails, a still picture, or a picture
\* that changes every 10 s
FrameSources == {"none", "still", "changing"}

\* simple_frame_hash(video_path, mid_time) on such a video
simple_frame_hash(source, mid_time) ==
    IF source = "none" THEN "none"
    ELSE IF source = "still" THEN "h1"
    ELSE IF (mid_time \div 80) % 2 = 0 THEN "h1" ELSE "h2"

\* the windows with the hash deduplicate_clips computes for each
hashed(ws, source) ==
    [k \in 1..Len(ws) |->
        [start_sec |-> ws[k].start_sec, end_sec |-> ws[k].end_sec,
         anchor_time_sec |-> ws[k].anchor_time_sec,
         anchor_score |-> ws[k].anchor_score,
         quality_score |-> ws[k].quality_score,
         mid_hash |-> simple_frame_hash(source,
                          (ws[k].start_sec + ws[k].end_sec) \div 2)]]

InitStages ==
    /\ LmIdle
    /\ SegIdle
    /\ JobsIdle
    /\ duration \in StageDurations
    /\ audio_rms_z \in AudioSignals(num_samples(duration))
    /\ motion_score_z \in MotionSignals(num_samples(duration))
    /\ excitement = combined_excitement(audio_rms_z, motion_score_z)
    /\ scene_cuts \in SceneCutLists
    /\ fade_timestamps \in FadeLists
    /\ frame_hash \in FrameSources
    /\ duration = LongDuration =>
          /\ fade_timestamps # <<>> /\ frame_hash = "changing"
          /\ Len(scene_cuts) > 1 /\ motion_score_z[3] > action_peak_threshold
    /\ anchors = <<>>
    /\ boundaries = <<>>
    /\ windows = <<>>
    /\ wpc = "idle"
    /\ FilterIdle
    /\ spc = "anchors"
    /\ rerun = <<>>
    /\ PipeIdle
    /\ CacheIdle
    /\ EventsIdle

featureVars == <<duration, excitement, audio_rms_z, motion_score_z, scene_cuts,
                 fade_timestamps, frame_hash, wpc, fpc>>

\* anchors = detect_anchors(features, config)
RunDetectAnchors ==
    /\ spc = "anchors"
    /\ anchors' = detect_anchors(excitement, audio_rms_z, motion_score_z,
                                 scene_cuts, duration)
    /\ spc' = "boundaries"
    /\ UNCHANGED <<boundaries, windows, fin, fkept, fdec, final, rerun>>
    /\ UNCHANGED featureVars
    /\ UNCHANGED notStageVars

\* boundaries = compute_boundary_scores(features, config)
RunComputeBoundaryScores ==
    /\ spc = "boundaries"
    /\ boundaries' = compute_boundary_scores(audio_rms_z, motion_score_z,
                         scene_cuts, fade_timestamps, duration)
    /\ spc' = "windows"
    /\ UNCHANGED <<anchors, windows, fin, fkept, fdec, final, rerun>>
    /\ UNCHANGED featureVars
    /\ UNCHANGED notStageVars

\* windows = select_windows(anchors, boundaries, features, config)
RunSelectWindows ==
    /\ spc = "windows"
    /\ windows' = select_windows(anchors, boundaries, excitement, duration)
    /\ spc' = "filters"
    /\ UNCHANGED <<anchors, boundaries, fin, fkept, fdec, final, rerun>>
    /\ UNCHANGED featureVars
    /\ UNCHANGED notStageVars

\* final_windows, filter_decisions = apply_post_filters(windows, ...)
RunPostFilters ==
    /\ spc = "filters"
    /\ fin' = hashed(windows, frame_hash)
    /\ LET r == apply_post_filters(hashed(windows, frame_hash), excitement)
       IN  /\ fkept' = r.kept
           /\ fdec' = r.decisions
           /\ final' = r.windows
    /\ spc' = "done"
    /\ UNCHANGED <<anchors, boundaries, windows, rerun>>
    /\ UNCHANGED featureVars
    /\ UNCHANGED notStageVars

\* the stages are run again on the same features
RunAgain ==
    /\ spc = "done"
    /\ rerun = <<>>
    /\ rerun' = <<[anchors |-> anchors, boundaries |-> boundaries,
                   windows |-> windows, final |-> final, decisions |-> fdec]>>
    /\ anchors' = <<>>
    /\ boundaries' = <<>>
    /\ windows' = <<>>
    /\ fin' = <<>>
    /\ fkept' = <<>>
    /\ fdec' = <<>>
    /\ final' = <<>>
    /\ spc' = "anchors"
    /\ UNCHANGED featureVars
    /\ UNCHANGED notStageVars

NextStages ==
    \/ RunDetectAnchors
    \/ RunComputeBoundaryScores
    \/ RunSelectWindows
    \/ RunPostFilters
    \/ RunAgain

SpecStages == InitStages /\ [][NextStages]_vars

----------------------------------------------------------------------------
(* find_local_maxima on its own (anchors.py), for a min_distance_sec that   *)
(* is or is not a multiple of step_sec                                      *)

\* the arrays have at most this many samples
MaxSamples == 5

SampleValues == {0, 500, 1000}

\* min_distance_sec: 0.5 s, 0.75 s and 1.0 s at a step_sec of 0.5 s
MinDistances == {step_sec, step_sec + step_sec \div 2, 2 * step_sec}

Thresholds == {0, 600}

InitMaxima ==
    /\ WinIdle
    /\ FilterIdle
    /\ PipeIdle
    /\ CacheIdle
    /\ StageIdle
    /\ EventsIdle
    /\ SegIdle
    /\ JobsIdle
    /\ \E n \in 1..MaxSamples :
         lm_in \in [arr : [1..n -> SampleValues],
                    min_distance_sec : MinDistances,
                    threshold : Thresholds]
    /\ lm_selected = <<>>
    /\ lm_pc = "call"

\* find_local_maxima(arr, times, min_distance_sec, step_sec, threshold)
FindLocalMaxima ==
    /\ lm_pc = "call"
    /\ lm_selected' = find_local_maxima(lm_in.arr, lm_in.min_distance_sec, lm_in.threshold)
    /\ lm_pc' = "returned"
    /\ UNCHANGED lm_in
    /\ UNCHANGED <<winVars, filterVars, pipeVars, cacheVars, stageVars, eventVars, segVars, jobVars>>

NextMaxima == FindLocalMaxima

SpecMaxima == InitMaxima /\ [][NextMaxima]_vars

----------------------------------------------------------------------------
(* The v1 scene segmentation (v1/scene_segmentation.py).  Its times are    *)
(* integers counting milliseconds; a part boundary of split_long_segments  *)
(* is floored to a millisecond.                                            *)

\* settings.min_clip_seconds, settings.max_clip_seconds, settings.target_max_clips
settings_min_clip_seconds == 5000
settings_max_clip_seconds == 60000
settings_target_max_clips == 300
\* create_segments_from_scenes keeps a segment when its duration exceeds 0.1
tiny_segment == 100
\* the 0.01 in the num_parts of split_long_segments
split_slack == 10

Segment(start, end) == [start |-> start, end |-> end]

\* Segment.duration
seg_duration(seg) == seg.end - seg.start

RECURSIVE SortedSeq(_)
\* sorted(set(...)) of a set of numbers
SortedSeq(S) ==
    IF S = {} THEN <<>>
    ELSE LET least == CHOOSE x \in S : \A y \in S : x <= y
         IN  <<least>> \o SortedSeq(S \ {least})

create_segments_from_scenes(scene_timestamps, video_duration) ==
    IF scene_timestamps = <<>> THEN <<Segment(0, video_duration)>>
    ELSE LET sorted == SortedSeq({ scene_timestamps[k] : k \in 1..Len(scene_timestamps) })
             from0  == IF sorted[1] > 0 THEN <<0>> \o sorted ELSE sorted
             timestamps == IF from0[Len(from0)] < video_duration
                           THEN Append(from0, video_duration) ELSE from0
             all == [i \in 1..(Len(timestamps) - 1) |->
                        Segment(timestamps[i], timestamps[i + 1])]
         IN  SelectSeq(all, LAMBDA seg : seg_duration(seg) > tiny_segment)

\* the Segments one seg of the loop of split_long_segments appends
split_parts(seg, max_duration) ==
    IF seg_duration(seg) <= max_duration THEN <<seg>>
    ELSE LET num_parts == (seg_duration(seg) + max_duration - split_slack) \div max_duration
         IN  [i \in 1..num_parts |->
                Segment(seg.start + ((i - 1) * seg_duration(seg)) \div num_parts,
                        IF i = num_parts THEN seg.end
                        ELSE seg.start + (i * seg_duration(seg)) \div num_parts)]

RECURSIVE split_long_segments(_, _)
split_long_segments(segs, max_duration) ==
    IF segs = <<>> THEN <<>>
    ELSE split_parts(Head(segs), max_duration)
             \o split_long_segments(Tail(segs), max_duration)

\* new_result.pop() followed by new_result.append(Segment(prev.start, end))
merged_with_previous(new_result, end) ==
    Append(SubSeq(new_result, 1, Len(new_result) - 1),
           Segment(new_result[Len(new_result)].start, end))

\* one iteration of the inner loop in which the merge of a middle segment
\* with its next neighbour leaves `changed` as it is
merge_step_unflagged(st, min_duration) ==
    LET res     == st.result
        n       == Len(res)
        i       == st.i
        current == res[i + 1]
        kept    == [st EXCEPT !.new_result = Append(st.new_result, current),
                              !.i = i + 1]
    IN  IF ~(seg_duration(current) < min_duration /\ n > 1) THEN kept
        ELSE IF i = 0
        THEN IF i + 1 < n
             THEN [st EXCEPT !.new_result = Append(st.new_result,
                                 Segment(current.start, res[i + 2].end)),
                             !.i = i + 2, !.changed = TRUE]
             ELSE kept
        ELSE IF i = n - 1
        THEN IF st.new_result # <<>>
             THEN [st EXCEPT !.new_result = merged_with_previous(st.new_result, current.end),
                             !.i = i + 1, !.changed = TRUE]
             ELSE kept
        ELSE IF st.new_result # <<>>
                /\ current.start - st.new_result[Len(st.new_result)].start
                       <= res[i + 2].end - current.start
        THEN [st EXCEPT !.new_result = merged_with_previous(st.new_result, current.end),
                        !.i = i + 1, !.changed = TRUE]
        ELSE [st EXCEPT !.new_result = Append(st.new_result,
                            Segment(current.start, res[i + 2].end)),
                        !.i = i + 2]

\* one iteration of `while i < len(result)` in merge_short_segments; st holds
\* result, new_result, i and changed
merge_step(st, min_duration) ==
    LET res     == st.result
        n       == Len(res)
        i       == st.i
        current == res[i + 1]
        kept    == [st EXCEPT !.new_result = Append(st.new_result, current),
                              !.i = i + 1]
    IN  IF ~(seg_duration(current) < min_duration /\ n > 1) THEN kept
        ELSE IF i = 0
        THEN IF i + 1 < n
             THEN [st EXCEPT !.new_result = Append(st.new_result,
                                 Segment(current.start, res[i + 2].end)),
                             !.i = i + 2, !.changed = TRUE]
             ELSE kept
        ELSE IF i = n - 1
        THEN IF st.new_result # <<>>
             THEN [st EXCEPT !.new_result = merged_with_previous(st.new_result, current.end),
                             !.i = i + 1, !.changed = TRUE]
             ELSE kept
        ELSE IF st.new_result # <<>>
                /\ current.start - st.new_result[Len(st.new_result)].start
                       <= res[i + 2].end - current.start
        THEN [st EXCEPT !.new_result = merged_with_previous(st.new_result, current.end),
                        !.i = i + 1, !.changed = TRUE]
        ELSE [st EXCEPT !.new_result = Append(st.new_result,
                            Segment(current.start, res[i + 2].end)),
                        !.i = i + 2, !.changed = TRUE]

\* changed = False; i = 0; new_result = []
pass_start(res) ==
    [result |-> res, new_result |-> <<>>, i |-> 0, changed |-> FALSE]

RECURSIVE merge_pass(_, _)
\* the inner loop from st on
merge_pass(st, min_duration) ==
    IF st.i >= Len(st.result) THEN st
    ELSE merge_pass(merge_step(st, min_duration), min_duration)

RECURSIVE merge_loop(_, _)
\* `while changed` from the start of a pass on
merge_loop(res, min_duration) ==
    LET st == merge_pass(pass_start(res), min_duration)
    IN  IF st.changed THEN merge_loop(st.new_result, min_duration)
        ELSE st.new_result

merge_short_segments(segs, min_duration) ==
    IF Len(segs) <= 1 THEN segs ELSE merge_loop(segs, min_duration)

RECURSIVE merge_until_few(_, _, _, _)
\* the loop that raises adjusted_min by a fifth while the clips are too many
merge_until_few(res, adjusted_min, max_duration, target_max_clips) ==
    IF Len(res) > target_max_clips /\ 5 * adjusted_min < 4 * max_duration
    THEN merge_until_few(
             merge_short_segments(res, (adjusted_min * 6) \div 5),
             (adjusted_min * 6) \div 5, max_duration, target_max_clips)
    ELSE res

\* post_process_segments up to the final pass
merged_segments(segs, min_duration, max_duration, target_max_clips) ==
    merge_until_few(merge_short_segments(segs, min_duration),
                    min_duration, max_duration, target_max_clips)

\* what the callers pass as target_max_clips besides the default
SmallTarget == 2
TargetMaxClips == {settings_target_max_clips, SmallTarget}

\* scene lists have at most this many timestamps
MaxTimestamps == 3

\* video durations: 12 s, 60.005 s and 125 s
VideoDurations == {12000, 60005, 125000}

SceneTimes(d) == { t \in {0, 50, 4000, 4050, 9000, 70000, d - 50, d} : t <= d }

RECURSIVE SceneLists(_, _)
\* the lists of at most n timestamps the scene detection reports
SceneLists(d, n) ==
    { <<>> } \cup
    IF n = 0 THEN {}
    ELSE { <<t>> \o rest : t \in SceneTimes(d), rest \in SceneLists(d, n - 1) }

InitSegments ==
    /\ WinIdle
    /\ FilterIdle
    /\ PipeIdle
    /\ CacheIdle
    /\ StageIdle
    /\ EventsIdle
    /\ LmIdle
    /\ JobsIdle
    /\ \E d \in VideoDurations :
         seg_in \in [scene_timestamps : SceneLists(d, MaxTimestamps),
                     video_duration : {d},
                     target_max_clips : TargetMaxClips]
    /\ segments = <<>>
    /\ seg_pc = "create"
    /\ seg_aux = <<>>

notSegVars == <<winVars, filterVars, pipeVars, cacheVars, stageVars, eventVars, lmVars, jobVars>>

\* segments = create_segments_from_scenes(scene_timestamps, video_duration);
\* post_process_segments returns [] for no segments
CreateSegments ==
    /\ seg_pc = "create"
    /\ segments' = create_segments_from_scenes(seg_in.scene_timestamps, seg_in.video_duration)
    /\ seg_pc' = IF segments' = <<>> THEN "returned" ELSE "split"
    /\ UNCHANGED <<seg_in, seg_aux>>
    /\ UNCHANGED notSegVars

\* result = split_long_segments(..., max_duration), first and final pass
SplitLongSegments ==
    /\ seg_pc \in {"split", "final_split"}
    /\ segments' = split_long_segments(segments, settings_max_clip_seconds)
    /\ seg_pc' = IF seg_pc = "split" THEN "merge" ELSE "returned"
    /\ UNCHANGED <<seg_in, seg_aux>>
    /\ UNCHANGED notSegVars

\* result = merge_short_segments(result, min_duration) and the merging under
\* a raised minimum while the clips are more than target_max_clips
MergeShortSegments ==
    /\ seg_pc = "merge"
    /\ segments' = merged_segments(segments, settings_min_clip_seconds, settings_max_clip_seconds, seg_in.target_max_clips)
    /\ seg_pc' = "final_split"
    /\ UNCHANGED <<seg_in, seg_aux>>
    /\ UNCHANGED notSegVars

NextSegments == CreateSegments \/ SplitLongSegments \/ MergeShortSegments

SpecSegments == InitSegments /\ [][NextSegments]_vars

----------------------------------------------------------------------------
(* merge_short_segments step by step: one action per iteration of its two  *)
(* loops                                                                    *)

\* segment lists have at most this many segments
MaxSegments == 4

\* segment durations: 2 s, 3 s and 6 s
SegDurations == {2000, 3000, 6000}

RECURSIVE ContiguousLists(_, _)
\* the lists of at most n contiguous segments from `from` on
ContiguousLists(from, n) ==
    { <<>> } \cup
    IF n = 0 THEN {}
    ELSE UNION { { <<Segment(from, from + d)>> \o rest :
                     rest \in ContiguousLists(from + d, n - 1) } :
                 d \in SegDurations }

InitMerge ==
    /\ WinIdle
    /\ FilterIdle
    /\ PipeIdle
    /\ CacheIdle
    /\ StageIdle
    /\ EventsIdle
    /\ LmIdle
    /\ JobsIdle
    /\ seg_in \in [segments : ContiguousLists(0, MaxSegments),
                   min_duration : {settings_min_clip_seconds}]
    /\ segments = <<>>
    /\ seg_pc = "enter"
    /\ seg_aux = <<>>

\* the early returns, or result = list(segments); changed = True
MergeEnter ==
    /\ seg_pc = "enter"
    /\ IF Len(seg_in.segments) <= 1
       THEN /\ segments' = seg_in.segments
            /\ seg_pc' = "returned"
            /\ UNCHANGED seg_aux
       ELSE /\ seg_aux' = [st |-> [result |-> seg_in.segments, new_result |-> <<>>,
                                   i |-> 0, changed |-> TRUE],
                           passes |-> 0]
            /\ seg_pc' = "while"
            /\ UNCHANGED segments
    /\ UNCHANGED seg_in
    /\ UNCHANGED notSegVars

\* `while changed` holds: changed = False; i = 0; new_result = []
MergeWhile ==
    /\ seg_pc = "while"
    /\ seg_aux.st.changed
    /\ seg_aux' = [st |-> pass_start(seg_aux.st.result),
                   passes |-> seg_aux.passes + 1]
    /\ seg_pc' = "inner"
    /\ UNCHANGED <<seg_in, segments>>
    /\ UNCHANGED notSegVars

\* `while changed` fails: return result
MergeReturn ==
    /\ seg_pc = "while"
    /\ ~seg_aux.st.changed
    /\ segments' = seg_aux.st.result
    /\ seg_pc' = "returned"
    /\ UNCHANGED <<seg_in, seg_aux>>
    /\ UNCHANGED notSegVars

\* one iteration of `while i < len(result)`
MergeStep ==
    /\ seg_pc = "inner"
    /\ seg_aux.st.i < Len(seg_aux.st.result)
    /\ seg_aux' = [seg_aux EXCEPT !.st = merge_step(seg_aux.st, seg_in.min_duration)]
    /\ UNCHANGED <<seg_in, segments, seg_pc>>
    /\ UNCHANGED notSegVars

\* the inner loop is over: result = new_result
MergePassEnd ==
    /\ seg_pc = "inner"
    /\ seg_aux.st.i >= Len(seg_aux.st.result)
    /\ seg_aux' = [seg_aux EXCEPT !.st.result = seg_aux.st.new_result]
    /\ seg_pc' = "while"
    /\ UNCHANGED <<seg_in, segments>>
    /\ UNCHANGED notSegVars

NextMerge == MergeEnter \/ MergeWhile \/ MergeReturn \/ MergeStep \/ MergePassEnd

SpecMerge == InitMerge /\ [][NextMerge]_vars

\* the function is sequential code: a call that can take a step takes it
SpecMergeFair == SpecMerge /\ WF_vars(NextMerge)

----------------------------------------------------------------------------
(* JobRunner (workers/job_runner.py).  A task advances from one await to   *)
(* the next; task.cancel() marks the task, and the CancelledError is        *)
(* raised in the coroutine at the await it is suspended in when the event   *)
(* loop next steps the task.  A database commit takes effect while the      *)
(* coroutine is still suspended in `await session.commit()` and in the exit *)
(* of `async with`.                                                         *)

\* the jobs the services have created rows for
NumJobs == 2
Jobs == 1..NumJobs

\* JobStatus values that end a job
FinalStatuses == {"completed", "failed", "cancelled"}

\* where the coroutine of a task stands:
\*   "none"             no task was created
\*   "created"          created by start_job, not stepped yet
\*   "starting"         in session.get / the commit of RUNNING (l.68-78)
\*   "handler"          RUNNING is committed; in the handler (l.78-95)
\*   "completing"       the handler returned; before the commit of COMPLETED
\*   "completed"        COMPLETED is committed; in the commit or the exit of
\*                      the session (l.108-109)
\*   "cancelling"       in `except asyncio.CancelledError`, before its commit
\*   "cancel_committed" CANCELLED is committed; in the exit of the session
\*   "failing"          in `except Exception`, before its commit
\*   "fail_committed"   FAILED is committed; in the exit of the session
\*   "done"             `finally` has run and the task is over
\*   "never_ran"        cancelled before its first step: no line of _run_job ran
TaskOver(j) == job_task[j].pc \in {"none", "done", "never_ran"}

notJobVars == <<winVars, filterVars, pipeVars, cacheVars, stageVars, eventVars, lmVars, segVars>>

InitJobs ==
    /\ WinIdle
    /\ FilterIdle
    /\ PipeIdle
    /\ CacheIdle
    /\ StageIdle
    /\ EventsIdle
    /\ LmIdle
    /\ SegIdle
    /\ job_status \in [Jobs -> {"pending", "missing"}]
    /\ running_jobs = {}
    /\ job_task = [j \in Jobs |-> [pc |-> "none", must_cancel |-> FALSE]]
    /\ job_aux = [created |-> [j \in Jobs |-> 0],
                  returned |-> [j \in Jobs |-> "none"],
                  shutdown |-> "no"]

\* start_job(job_id, job_type) with a registered handler; the services call
\* it once for a job they created
StartJob ==
    /\ job_aux.shutdown = "no"
    /\ \E j \in Jobs :
         /\ job_aux.created[j] = 0 \/ j \in running_jobs
         /\ IF j \in running_jobs
            THEN /\ job_aux' = [job_aux EXCEPT !.returned[j] = "false"]
                 /\ UNCHANGED <<running_jobs, job_task>>
            ELSE /\ job_task' = [job_task EXCEPT ![j] = [pc |-> "created", must_cancel |-> FALSE]]
                 /\ running_jobs' = running_jobs \cup {j}
                 /\ job_aux' = [job_aux EXCEPT !.returned[j] = "true",
                                               !.created[j] = @ + 1]
    /\ UNCHANGED job_status
    /\ UNCHANGED notJobVars

\* the first step of the task: _run_job runs up to `await session.get`
TaskStart ==
    /\ \E j \in Jobs :
         /\ job_task[j].pc = "created" /\ ~job_task[j].must_cancel
         /\ job_task' = [job_task EXCEPT ![j].pc = "starting"]
    /\ UNCHANGED <<job_status, running_jobs, job_aux>>
    /\ UNCHANGED notJobVars

\* session.get returned None: return, then `finally`
JobNotFound ==
    /\ \E j \in Jobs :
         /\ job_task[j].pc = "starting" /\ ~job_task[j].must_cancel
         /\ job_status[j] = "missing"
         /\ job_task' = [job_task EXCEPT ![j].pc = "done"]
         /\ running_jobs' = running_jobs \ {j}
    /\ UNCHANGED <<job_status, job_aux>>
    /\ UNCHANGED notJobVars

\* job.status = RUNNING is committed; the coroutine goes on to the handler
CommitRunning ==
    /\ \E j \in Jobs :
         /\ job_task[j].pc = "starting" /\ ~job_task[j].must_cancel
         /\ job_status[j] # "missing"
         /\ job_status' = [job_status EXCEPT ![j] = "running"]
         /\ job_task' = [job_task EXCEPT ![j].pc = "handler"]
    /\ UNCHANGED <<running_jobs, job_aux>>
    /\ UNCHANGED notJobVars

\* the handler returned its result
HandlerReturns ==
    /\ \E j \in Jobs :
         /\ job_task[j].pc = "handler" /\ ~job_task[j].must_cancel
         /\ job_task' = [job_task EXCEPT ![j].pc = "completing"]
    /\ UNCHANGED <<job_status, running_jobs, job_aux>>
    /\ UNCHANGED notJobVars

\* the handler raised an Exception
HandlerRaises ==
    /\ \E j \in Jobs :
         /\ job_task[j].pc = "handler" /\ ~job_task[j].must_cancel
         /\ job_task' = [job_task EXCEPT ![j].pc = "failing"]
    /\ UNCHANGED <<job_status, running_jobs, job_aux>>
    /\ UNCHANGED notJobVars

\* the database commits job.status = COMPLETED
CommitCompleted ==
    /\ \E j \in Jobs :
         /\ job_task[j].pc = "completing" /\ ~job_task[j].must_cancel
         /\ job_status' = [job_status EXCEPT ![j] = "completed"]
         /\ job_task' = [job_task EXCEPT ![j].pc = "completed"]
    /\ UNCHANGED <<running_jobs, job_aux>>
    /\ UNCHANGED notJobVars

\* the database commits job.status = CANCELLED (when the row exists)
CommitCancelled ==
    /\ \E j \in Jobs :
         /\ job_task[j].pc = "cancelling" /\ ~job_task[j].must_cancel
         /\ job_status' = [job_status EXCEPT ![j] =
                              IF @ = "missing" THEN @ ELSE "cancelled"]
         /\ job_task' = [job_task EXCEPT ![j].pc = "cancel_committed"]
    /\ UNCHANGED <<running_jobs, job_aux>>
    /\ UNCHANGED notJobVars

\* the database commits job.status = FAILED
CommitFailed ==
    /\ \E j \in Jobs :
         /\ job_task[j].pc = "failing" /\ ~job_task[j].must_cancel
         /\ job_status' = [job_status EXCEPT ![j] = "failed"]
         /\ job_task' = [job_task EXCEPT ![j].pc = "fail_committed"]
    /\ UNCHANGED <<running_jobs, job_aux>>
    /\ UNCHANGED notJobVars

\* the session is closed, the try statement is left: `finally` pops the id
TaskFinishes ==
    /\ \E j \in Jobs :
         /\ job_task[j].pc \in {"completed", "cancel_committed", "fail_committed"}
         /\ ~job_task[j].must_cancel
         /\ job_task' = [job_task EXCEPT ![j].pc = "done"]
         /\ running_jobs' = running_jobs \ {j}
    /\ UNCHANGED <<job_status, job_aux>>
    /\ UNCHANGED notJobVars

\* the event loop steps a task marked by task.cancel(): CancelledError is
\* raised at its await.  Inside the try body it is caught by `except
\* asyncio.CancelledError`; inside an except block it leaves _run_job through
\* `finally`; a task not stepped yet ends without running any of _run_job.
CancelDelivered ==
    /\ \E j \in Jobs :
         /\ job_task[j].must_cancel
         /\ IF job_task[j].pc = "created"
            THEN /\ job_task' = [job_task EXCEPT ![j] = [pc |-> "never_ran", must_cancel |-> FALSE]]
                 /\ UNCHANGED running_jobs
            ELSE IF job_task[j].pc \in {"starting", "handler", "completing", "completed"}
            THEN /\ job_task' = [job_task EXCEPT ![j] = [pc |-> "cancelling", must_cancel |-> FALSE]]
                 /\ UNCHANGED running_jobs
            ELSE /\ job_task' = [job_task EXCEPT ![j] = [pc |-> "done", must_cancel |-> FALSE]]
                 /\ running_jobs' = running_jobs \ {j}
    /\ UNCHANGED <<job_status, job_aux>>
    /\ UNCHANGED notJobVars

\* cancel_job(job_id): task.cancel() on the registered task
CancelJob ==
    /\ job_aux.shutdown = "no"
    /\ \E j \in running_jobs :
         /\ ~TaskOver(j)
         /\ job_task' = [job_task EXCEPT ![j].must_cancel = TRUE]
    /\ UNCHANGED <<job_status, running_jobs, job_aux>>
    /\ UNCHANGED notJobVars

\* shutdown(): task.cancel() on every registered task, then the gather
ShutdownBegins ==
    /\ job_aux.shutdown = "no"
    /\ job_task' = [j \in Jobs |->
                      IF j \in running_jobs /\ ~TaskOver(j)
                      THEN [job_task[j] EXCEPT !.must_cancel = TRUE]
                      ELSE job_task[j]]
    /\ job_aux' = [job_aux EXCEPT !.shutdown = "waiting"]
    /\ UNCHANGED <<job_status, running_jobs>>
    /\ UNCHANGED notJobVars

\* the gather returned (every registered task is over): _running_jobs.clear()
ShutdownEnds ==
    /\ job_aux.shutdown = "waiting"
    /\ \A j \in running_jobs : TaskOver(j)
    /\ running_jobs' = {}
    /\ job_aux' = [job_aux EXCEPT !.shutdown = "done"]
    /\ UNCHANGED <<job_status, job_task>>
    /\ UNCHANGED notJobVars

NextJobs ==
    \/ StartJob
    \/ TaskStart
    \/ JobNotFound
    \/ CommitRunning
    \/ HandlerReturns
    \/ HandlerRaises
    \/ CommitCompleted
    \/ CommitCancelled
    \/ CommitFailed
    \/ TaskFinishes
    \/ CancelDelivered
    \/ CancelJob
    \/ ShutdownBegins
    \/ ShutdownEnds

SpecJobs == InitJobs /\ [][NextJobs]_vars

----------------------------------------------------------------------------
(* Properties of select_windows (checked under SpecWindows)                *)

\* the edges the two boundary selections chose for window w, before the
\* duration enforcement
snapped(w) ==
    LET s == select_start_boundary(w.anchor_time_sec, boundaries)
        e == select_end_boundary(w.anchor_time_sec, s.time, boundaries,
                                 excitement, duration)
    IN  [start_sec |-> s.time, end_sec |-> e.time]

\* C1: in a video at least min_clip_seconds long, every window select_windows
\* has built lasts at least min_clip_seconds and at most max_clip_seconds.
C1_DurationWithinLimits ==
    duration >= min_clip_seconds =>
        \A i \in 1..Len(windows) :
            /\ min_clip_seconds <= windows[i].end_sec - windows[i].start_sec
            /\ windows[i].end_sec - windows[i].start_sec <= max_clip_seconds

\* a returned window whose snapped edges were too close, which the symmetric
\* expansion could not bring to the minimum and the force-minimum step did
C1_Witness ==
    /\ wpc = "returned"
    /\ duration >= min_clip_seconds
    /\ \E i \in 1..Len(windows) :
         LET w == windows[i]
             n == min_clip_seconds - (snapped(w).end_sec - snapped(w).start_sec)
         IN  /\ n > 0
             /\ Min(duration, snapped(w).end_sec + (n \div 2))
                  - Max(0, snapped(w).start_sec - (n \div 2)) < min_clip_seconds
             /\ w.end_sec - w.start_sec = min_clip_seconds

\* C2: every window select_windows has built starts before it ends, contains
\* its anchor, and lies within [0, duration].
C2_WindowAroundAnchor ==
    \A i \in 1..Len(windows) :
        /\ windows[i].start_sec < windows[i].end_sec
        /\ windows[i].start_sec <= windows[i].anchor_time_sec
        /\ windows[i].anchor_time_sec <= windows[i].end_sec
        /\ 0 <= windows[i].start_sec
        /\ windows[i].end_sec <= duration

\* a returned list with a window snapped to boundaries on both sides and a
\* window with a fallback end whose edges the duration enforcement moved
C2_Witness ==
    /\ wpc = "returned"
    /\ \E i \in 1..Len(windows) :
         /\ windows[i].start_reason = "boundary_snap"
         /\ windows[i].end_reason = "boundary_snap"
    /\ \E j \in 1..Len(windows) :
         /\ windows[j].end_reason = "fallback_offset"
         /\ \/ windows[j].start_sec # snapped(windows[j]).start_sec
            \/ windows[j].end_sec # snapped(windows[j]).end_sec

----------------------------------------------------------------------------
(* Properties of apply_post_filters (checked under SpecFilters)            *)

\* length of the intersection of two windows
Overlap(a, b) ==
    Max(0, Min(a.end_sec, b.end_sec) - Max(a.start_sec, b.start_sec))

\* intersection over union of two windows exceeds overlap_iou_threshold
IoUExceeds(a, b) ==
    LET union == (a.end_sec - a.start_sec) + (b.end_sec - b.start_sec)
                 - Overlap(a, b)
    IN  union > 0 /\ Overlap(a, b) * 100 > overlap_iou_threshold * union

\* intersection over union of two windows equals overlap_iou_threshold
IoUAtThreshold(a, b) ==
    LET union == (a.end_sec - a.start_sec) + (b.end_sec - b.start_sec)
                 - Overlap(a, b)
    IN  union > 0 /\ Overlap(a, b) * 100 = overlap_iou_threshold * union

\* C3: no two clips of the list apply_post_filters returns have an IoU above
\* overlap_iou_threshold.
C3_FinalClipsBelowIoU ==
    fpc = "returned" =>
        \A i, j \in 1..Len(final) :
            i # j => ~IoUExceeds(final[i], final[j])

\* the input held a pair above the threshold, and two clips whose IoU is
\* exactly the threshold were both returned
C3_Witness ==
    /\ fpc = "returned"
    /\ \E i, j \in 1..Len(fin) : i # j /\ IoUExceeds(fin[i], fin[j])
    /\ \E i, j \in 1..Len(final) : i # j /\ IoUAtThreshold(final[i], final[j])

\* C4: the quality cap returns its input when that has at most
\* target_clip_count_soft windows; otherwise it returns exactly
\* target_clip_count_soft of them, none of lower quality than a window it
\* dropped; the final list has at most target_clip_count_soft clips.
C4_QualityCap ==
    fpc = "returned" =>
        LET inq  == fkept.duplicate
            outq == fkept.quality
        IN  /\ Len(inq) <= target_clip_count_soft => outq = inq
            /\ Len(inq) > target_clip_count_soft =>
                 /\ Len(outq) = target_clip_count_soft
                 /\ \A i \in 1..Len(outq) : is_in(outq[i], inq)
                 /\ \A i, j \in 1..Len(outq) : i # j => outq[i] # outq[j]
                 /\ \A d \in 1..Len(inq) :
                      ~is_in(inq[d], outq) =>
                          \A k \in 1..Len(outq) :
                              outq[k].quality_score >= inq[d].quality_score
            /\ Len(final) <= target_clip_count_soft

\* more windows than the cap reached the quality pass, and it dropped one
C4_Witness ==
    /\ fpc = "returned"
    /\ Len(fkept.duplicate) > target_clip_count_soft
    /\ \E d \in 1..Len(fkept.duplicate) : ~is_in(fkept.duplicate[d], final)
    /\ Len(final) = target_clip_count_soft

\* C5: the list apply_post_filters returns is in ascending start_sec order.
C5_FinalSortedByStart ==
    fpc = "returned" =>
        \A i, j \in 1..Len(final) :
            i < j => final[i].start_sec <= final[j].start_sec

\* the passes left at least two clips in another order than the one returned
C5_Witness ==
    /\ fpc = "returned"
    /\ Len(final) >= 2
    /\ fkept.quality # final

----------------------------------------------------------------------------
(* Properties of run_v2_pipeline (checked under SpecPipeline)              *)

\* C6: the pct values one invocation passes to the progress callback lie in
\* [0, 100] and never decrease.
C6_ProgressMonotone ==
    /\ \A i \in 1..Len(progress) : 0 <= progress[i] /\ progress[i] <= 10000
    /\ \A i \in 1..(Len(progress) - 1) : progress[i] <= progress[i + 1]

\* C7 (checked under SpecCache): no load_cached_features reads a partially
\* written features_v2.json, and once every invocation is through the file
\* holds one writer's complete document.
C7_AtomicCacheWrites ==
    /\ \A p \in DOMAIN observed : observed[p] # "partial"
    /\ (cpc # <<>> /\ \A p \in DOMAIN cpc : cpc[p] = "done") =>
           read_cache(disk) = "complete"

\* the file was read, load_cached_features has returned
PastLoad == pc \notin {"idle", "start", "load"}

\* save_features_cache has returned
PastSave == pc \in {"anchors", "boundaries", "windows", "filters", "debug"}
            \/ (pc = "done" /\ ~save_error
                /\ cancelled \notin {"start", "load", "gather", "fades",
                                     "extracted"})

\* C8: load_cached_features returns features only from a record whose
\* version equals config.cache_version; on another or no version the
\* invocation extracts the features and, once it has saved them, the cache
\* holds them under the current version.
C8_VersionGatesCache ==
    PastLoad =>
        /\ cache_hit => data.kind = "json" /\ data.version = config.cache_version
        /\ data.version # config.cache_version =>
             /\ ~cache_hit
             /\ PastSave => /\ features.version = config.cache_version
                            /\ cache_file = cache_payload(features)

\* an invocation that found a complete record of another version has
\* returned, and the cache now holds the current version
C8_Witness ==
    /\ pc = "done"
    /\ result = "returned"
    /\ data.kind = "json" /\ data.keys_ok
    /\ data.version \in Versions /\ data.version # config.cache_version
    /\ cache_file.version = config.cache_version

\* C9: when writing the debug JSON or the plot fails, run_v2_pipeline still
\* returns its result.
C9_DebugFailureTolerated ==
    (pc = "done" /\ (debug_json = "failed" \/ debug_plot = "failed")) =>
        result = "returned"

\* C10: a corrupt cache file is a cache miss, and when writing the cache
\* file fails the invocation goes on and returns its result.
C10_CacheErrorsRecoverable ==
    /\ (PastLoad /\ data.kind = "corrupt") => ~cache_hit
    /\ (pc = "done" /\ save_error) => result = "returned"

\* extract_features has returned the features of this invocation
ExtractorCompleted ==
    /\ pc = "save"
    /\ features = extract_features(tasks, config)
    /\ \A t \in AllSignals : tasks[t] \in {"done", "failed", "skipped"}

\* C11: the feature cache file changes only in a step taken after
\* extract_features has returned; an invocation cancelled before that leaves
\* the file as it was.
C11_NoCacheWriteBeforeExtraction ==
    [][cache_file' # cache_file => ExtractorCompleted]_vars

\* an invocation was cancelled between two decoder calls of a cache miss,
\* and the file is what load_cached_features had found
C11_Witness ==
    /\ pc = "done"
    /\ cancelled = "gather"
    /\ \E t \in Signals : tasks[t] = "done"
    /\ \E t \in Signals : tasks[t] = "running"
    /\ cache_file = data

----------------------------------------------------------------------------
(* Properties of the stages (checked under SpecStages)                     *)

AnchorsDetected == spc \in {"boundaries", "windows", "filters", "done"}
BoundariesScored == spc \in {"windows", "filters", "done"}
WindowsSelected == spc \in {"filters", "done"}

\* a cache-miss invocation in which a decoder call failed
DegradedRun == ~cache_hit /\ \E t \in AllSignals : tasks[t] = "failed"

\* the step in which load_cached_features returns
LoadReturns == pc = "load" /\ pc' \notin {"load", "done"}

\* C29: the features of a cache-miss run in which an extraction failed are
\* saved with the neutral value in them, and a later run under the same
\* cache_version that finds them loads them as they are and starts no
\* extraction, also when its step_sec is not the stored one.
C29_DegradedFeaturesReused ==
    /\ []((DegradedRun /\ PastSave) =>
            /\ cache_file.kind = "json" /\ cache_file.keys_ok
            /\ cache_file.version = config.cache_version
            /\ cache_file.signals = features.signals
            /\ \E t \in AllSignals : cache_file.signals[t] = "neutral")
    /\ [][(/\ LoadReturns
           /\ cache_file.kind = "json" /\ cache_file.keys_ok
           /\ cache_file.version = config.cache_version) =>
            /\ cache_hit'
            /\ features'.signals = cache_file.signals
            /\ features'.step_sec = cache_file.step_sec
            /\ tasks' = tasks
            /\ cache_file' = cache_file
            /\ pc' = "anchors"]_vars
    /\ [](cache_hit => \A t \in AllSignals : tasks[t] = "idle")

\* a second run under another step_sec has returned from the features the
\* first run saved with a neutral signal in them
C29_Witness ==
    /\ runs = 2
    /\ pc = "done"
    /\ result = "returned"
    /\ cache_hit
    /\ \E t \in AllSignals : features.signals[t] = "neutral"
    /\ features.step_sec # config.step_sec
    /\ cache_file = cache_payload(features)

C14_NoClipInShortVideo ==
    (spc = "done" /\ duration < min_clip_seconds) => final = <<>>

\* C15: two anchors detect_anchors returns with the same reason are at least
\* anchor_suppression_window_sec apart.
C15_SameReasonAnchorsApart ==
    AnchorsDetected =>
        \A i, j \in 1..Len(anchors) :
            (i < j /\ anchors[i].reason = anchors[j].reason) =>
                Distance(anchors[i].time_sec, anchors[j].time_sec)
                    >= anchor_suppression_window_sec

\* two anchors of one reason were returned, and a local maximum of the
\* excitement was suppressed
C15_Witness ==
    /\ spc = "boundaries"
    /\ \E i, j \in 1..Len(anchors) :
          i < j /\ anchors[i].reason = anchors[j].reason
    /\ Len(local_maximum_indices(excitement, anchor_suppression_window_sec,
                                 anchor_excitement_threshold))
           > Cardinality({ i \in 1..Len(anchors) :
                             anchors[i].reason = "excitement_peak" })
    /\ Len(anchors) < min_max_anchors

\* M of the claim: max(10, min(floor(duration / 60 * max_anchors_per_minute),
\* 2 * target_clip_count_soft)), the duration being in eighths of a second
AnchorLimit ==
    LET per_length == (duration * max_anchors_per_minute) \div 480
        capped == IF per_length <= 2 * target_clip_count_soft THEN per_length
                  ELSE 2 * target_clip_count_soft
    IN  IF capped >= 10 THEN capped ELSE 10

Returned(a) == \E k \in 1..Len(anchors) : anchors[k] = a

\* C16: detect_anchors returns at most M anchors, all of them detected ones;
\* when more were detected it returns M of them and none it leaves out
\* scores higher than one it returns; the returned list ascends in time_sec.
C16_TopAnchorsByTime ==
    AnchorsDetected =>
        LET detected == detected_anchors(excitement, audio_rms_z,
                                         motion_score_z, scene_cuts)
        IN  /\ Len(anchors) <= AnchorLimit
            /\ Len(detected) > AnchorLimit =>
                  /\ Len(anchors) = AnchorLimit
                  /\ \A i \in 1..Len(detected), k \in 1..Len(anchors) :
                        ~Returned(detected[i]) =>
                            detected[i].score <= anchors[k].score
            /\ \A k \in 1..Len(anchors) :
                  \E i \in 1..Len(detected) : detected[i] = anchors[k]
            /\ \A i, j \in 1..Len(anchors) :
                  i < j => anchors[i].time_sec <= anchors[j].time_sec

\* more anchors were detected than M, and one left out scores lower than one
\* that was returned
C16_Witness ==
    /\ spc = "boundaries"
    /\ LET detected == detected_anchors(excitement, audio_rms_z,
                                        motion_score_z, scene_cuts)
       IN  /\ Len(detected) > AnchorLimit
           /\ \E i \in 1..Len(detected), k \in 1..Len(anchors) :
                 ~Returned(detected[i]) /\ detected[i].score < anchors[k].score

InUnitRange(x) == 0 <= x /\ x <= 1000

\* C17: every BoundaryCandidate compute_boundary_scores returns has its
\* score and its scene, audio dip, fade and motion valley strengths in [0, 1].
C17_BoundaryScoresInUnitRange ==
    BoundariesScored =>
        \A k \in 1..Len(boundaries) :
            /\ InUnitRange(boundaries[k].score)
            /\ InUnitRange(boundaries[k].scene_strength)
            /\ InUnitRange(boundaries[k].audio_dip_strength)
            /\ InUnitRange(boundaries[k].fade_strength)
            /\ InUnitRange(boundaries[k].motion_valley_strength)

\* candidates were returned for features whose valleys are deeper than one
\* unit, one of them with all four strengths positive and one that a
\* stronger neighbour has penalised
C17_Witness ==
    /\ spc = "windows"
    /\ \E i \in 1..Len(audio_rms_z) : audio_rms_z[i] < -1000
    /\ \E k \in 1..Len(boundaries) :
          /\ boundaries[k].scene_strength > 0
          /\ boundaries[k].audio_dip_strength > 0
          /\ boundaries[k].fade_strength > 0
          /\ boundaries[k].motion_valley_strength > 0
    /\ \E k \in 1..Len(boundaries) :
          boundaries[k].score * 1000 <
              boundary_w_scene * boundaries[k].scene_strength
              + boundary_w_audio_dip * boundaries[k].audio_dip_strength
              + boundary_w_fade * boundaries[k].fade_strength
              + boundary_w_motion_valley * boundaries[k].motion_valley_strength
              - 1000

\* C22: select_start_boundary searches [max(0, t_a - pre_max),
\* max(0, t_a - pre_min)]; when that range is non-empty and holds a boundary
\* it returns the highest-scoring one with reason boundary_snap, otherwise
\* max(0, t_a - fallback_pre) with score 0 and reason fallback_offset; the
\* start it returns is never later than t_a.
C22_StartBoundaryAsSpecified ==
    \A i \in 1..Len(anchors) :
        LET t_a == anchors[i].time_sec
            lo  == Max(0, t_a - pre_max)
            hi  == Max(0, t_a - pre_min)
            in_range == { k \in 1..Len(boundaries) :
                            /\ lo <= boundaries[k].time_sec
                            /\ boundaries[k].time_sec <= hi }
            r   == select_start_boundary(t_a, boundaries)
        IN  /\ r.time <= t_a
            /\ IF lo <= hi /\ in_range # {}
               THEN /\ r.reason = "boundary_snap"
                    /\ \E k \in in_range :
                         /\ r.time = boundaries[k].time_sec
                         /\ r.score = boundaries[k].score
                         /\ \A l \in in_range :
                              boundaries[l].score <= boundaries[k].score
               ELSE r = [time |-> Max(0, t_a - fallback_pre), score |-> 0,
                         reason |-> "fallback_offset"]

\* C28: select_end_boundary never returns an end later than
\* start + max_clip_seconds, so the too-long branch is never taken: every
\* window has end_reason boundary_snap or fallback_offset and is at most
\* max_clip_seconds long.
C28_NoHardCut ==
    \A i \in 1..Len(windows) :
        /\ windows[i].end_reason \in {"boundary_snap", "fallback_offset"}
        /\ windows[i].end_sec - windows[i].start_sec <= max_clip_seconds

\* a window that ends exactly at start + max_clip_seconds although a boundary
\* lies later, within post_max of its anchor and inside the video
C28_Witness ==
    \E i \in 1..Len(windows) :
        /\ windows[i].end_sec = windows[i].start_sec + max_clip_seconds
        /\ \E k \in 1..Len(boundaries) :
             /\ boundaries[k].time_sec > windows[i].end_sec
             /\ boundaries[k].time_sec <= windows[i].anchor_time_sec + post_max
             /\ boundaries[k].time_sec >= windows[i].anchor_time_sec + post_min

\* C27: any two anchors detect_anchors returns, whatever their reasons, are
\* at least anchor_suppression_window_sec apart.
C27_AllAnchorsApart ==
    AnchorsDetected =>
        \A i, j \in 1..Len(anchors) :
            i < j => Distance(anchors[i].time_sec, anchors[j].time_sec)
                         >= anchor_suppression_window_sec

\* anchors of two reasons were returned, none was cut off, and an audio peak
\* was skipped for being too close to an anchor found earlier
C27_Witness ==
    /\ spc = "boundaries"
    /\ Len(anchors) < min_max_anchors
    /\ \E i, j \in 1..Len(anchors) : anchors[i].reason # anchors[j].reason
    /\ Len(find_local_maxima(audio_rms_z, anchor_suppression_window_sec,
                             audio_peak_threshold))
           > Cardinality({ i \in 1..Len(anchors) :
                             anchors[i].reason = "audio_peak" })

----------------------------------------------------------------------------
(* Properties of the event lists (checked under SpecEvents)                *)

\* a list is ascending without duplicates and lies strictly inside (0, d)
CleanEventList(xs, d) ==
    /\ \A i \in 1..(Len(xs) - 1) : xs[i] < xs[i + 1]
    /\ \A i \in 1..Len(xs) : 0 < xs[i] /\ xs[i] < d

\* C18: scene_cuts, fade_timestamps and freeze_timestamps of the features
\* are each ascending, free of duplicates and strictly between 0 and duration.
C18_EventListsClean ==
    event_lists.built =>
        /\ CleanEventList(event_lists.scene_cuts, reported.duration)
        /\ CleanEventList(event_lists.fade_timestamps, reported.duration)
        /\ CleanEventList(event_lists.freeze_timestamps, reported.duration)

----------------------------------------------------------------------------
(* Properties of the filter passes (checked under SpecFilters)             *)

\* the decisions ds of a pass that received the list input and kept the
\* list kept: one decision per input index, and kept is the list of the
\* windows whose decision is "keep"
OneDecisionPerInput(input, ds, kept) ==
    /\ Len(ds) = Len(input)
    /\ { ds[i].clip_index : i \in 1..Len(ds) } = 0..(Len(input) - 1)
    /\ Len(kept) = Cardinality({ i \in 1..Len(ds) : ds[i].action = "keep" })
    /\ \A i \in 1..Len(ds) :
         ds[i].clip_index \in 0..(Len(input) - 1) =>
            (ds[i].action = "keep" <=> is_in(input[ds[i].clip_index + 1], kept))

\* position k comes before position i in the order of start times
VisitedBefore(ws, k, i) ==
    \/ ws[k].start_sec < ws[i].start_sec
    \/ ws[k].start_sec = ws[i].start_sec /\ k < i

\* k and i start within 30 s of each other and their middle frames have the
\* same hash
SameHashNearby(ws, k, i) ==
    /\ ws[k].start_sec - ws[i].start_sec <= 240
    /\ ws[i].start_sec - ws[k].start_sec <= 240
    /\ ws[k].mid_hash # "none"
    /\ ws[k].mid_hash = ws[i].mid_hash

DuplicateKept(i) == fdec.duplicate[i].action = "keep"

\* C23: the duplicate filter visits the windows in time order and drops a
\* window iff a window kept before it starts within 30 s of it, has the same
\* hash and a strictly higher quality_score; a window of equal or higher
\* quality, of another hash or more than 30 s away is kept.
C23_DuplicateDroppedIffLower ==
    fpc = "returned" =>
        LET ws == fkept.boring
        IN  /\ Len(fdec.duplicate) = Len(ws)
            /\ \A i \in 1..Len(ws) :
                 ~DuplicateKept(i) <=>
                    \E k \in 1..Len(ws) :
                        /\ DuplicateKept(k)
                        /\ VisitedBefore(ws, k, i)
                        /\ SameHashNearby(ws, k, i)
                        /\ ws[i].quality_score < ws[k].quality_score

\* three windows reached the filter: one was dropped as the duplicate of a
\* kept one, one of the same hash and equal quality was kept
C23_Witness ==
    /\ fpc = "returned"
    /\ \E i, j, k \in 1..Len(fkept.boring) :
         /\ DuplicateKept(k) /\ DuplicateKept(j) /\ ~DuplicateKept(i)
         /\ j # k
         /\ VisitedBefore(fkept.boring, k, i)
         /\ VisitedBefore(fkept.boring, k, j)
         /\ SameHashNearby(fkept.boring, k, i)
         /\ SameHashNearby(fkept.boring, k, j)
         /\ fkept.boring[j].quality_score = fkept.boring[k].quality_score

\* a window kept although an earlier kept window of the same hash and a
\* higher quality exists, because that one starts more than 30 s before it
C23_FarWitness ==
    /\ fpc = "returned"
    /\ \E i, k \in 1..Len(fkept.boring) :
         /\ DuplicateKept(k) /\ DuplicateKept(i)
         /\ fkept.boring[i].start_sec - fkept.boring[k].start_sec > 240
         /\ fkept.boring[k].mid_hash # "none"
         /\ fkept.boring[k].mid_hash = fkept.boring[i].mid_hash
         /\ fkept.boring[i].quality_score < fkept.boring[k].quality_score

\* C19: each of the four passes emits one FilterDecision per window it
\* received, their clip_index values are the input indices 0..n-1, each once,
\* and the windows the pass keeps are those whose decision is "keep".
C19_OneDecisionPerWindow ==
    fpc = "returned" =>
        /\ OneDecisionPerInput(fin, fdec.overlap, fkept.overlap)
        /\ OneDecisionPerInput(fkept.overlap, fdec.boring, fkept.boring)
        /\ OneDecisionPerInput(fkept.boring, fdec.duplicate, fkept.duplicate)
        /\ OneDecisionPerInput(fkept.duplicate, fdec.quality, fkept.quality)

\* the overlap pass visited its input out of index order and dropped a
\* window, the duplicate pass dropped one of the two it received
C19_Witness ==
    /\ fpc = "returned"
    /\ Len(fin) = MaxWindows
    /\ fdec.overlap[1].clip_index # 0
    /\ \E i \in 1..Len(fdec.overlap) : fdec.overlap[i].action = "drop_overlap"
    /\ \E i \in 1..Len(fdec.duplicate) :
         fdec.duplicate[i].action = "drop_duplicate"

\* the window of the i-th decision of the overlap pass
Visited(i) == fin[fdec.overlap[i].clip_index + 1]

\* the overlap pass visits the windows in descending quality order
VisitsByQuality ==
    \A i, j \in 1..Len(fdec.overlap) :
        i < j => Visited(i).quality_score >= Visited(j).quality_score

\* every drop_overlap decision names a kept input window whose IoU with the
\* dropped window exceeds the threshold
DropsNameBlocker ==
    \A i \in 1..Len(fdec.overlap) :
        fdec.overlap[i].action = "drop_overlap" =>
            /\ fdec.overlap[i].related_clip_index \in 0..(Len(fin) - 1)
            /\ is_in(fin[fdec.overlap[i].related_clip_index + 1], fkept.overlap)
            /\ IoUExceeds(Visited(i), fin[fdec.overlap[i].related_clip_index + 1])

\* C20 as stated: descending visit order, and of two windows whose IoU
\* exceeds the threshold the higher-quality one is kept and the other is
\* not, and every drop names its blocker.
C20_HigherQualityOfPairKept ==
    fpc = "returned" =>
        /\ VisitsByQuality
        /\ \A a, b \in 1..Len(fin) :
             (IoUExceeds(fin[a], fin[b])
              /\ fin[a].quality_score > fin[b].quality_score)
             => (is_in(fin[a], fkept.overlap) /\ ~is_in(fin[b], fkept.overlap))
        /\ DropsNameBlocker

\* C20 amended: resolve_overlaps visits the windows in descending quality
\* order and keeps a window iff its IoU with every window kept before it is
\* at most the threshold; so no two kept windows exceed the threshold, a
\* dropped window was blocked by a kept window of at least its quality, and
\* every drop names that blocker.
C20_GreedyOverlap ==
    fpc = "returned" =>
        /\ VisitsByQuality
        /\ \A i \in 1..Len(fdec.overlap) :
             fdec.overlap[i].action = "keep" <=>
                \A j \in 1..(i - 1) :
                    fdec.overlap[j].action = "keep"
                    => ~IoUExceeds(Visited(i), Visited(j))
        /\ \A a, b \in 1..Len(fkept.overlap) :
             a # b => ~IoUExceeds(fkept.overlap[a], fkept.overlap[b])
        /\ DropsNameBlocker
        /\ \A i \in 1..Len(fdec.overlap) :
             fdec.overlap[i].action = "drop_overlap" =>
                fin[fdec.overlap[i].related_clip_index + 1].quality_score
                    >= Visited(i).quality_score

\* a window was dropped for a better one, and a third window of lower
\* quality whose IoU with the dropped one exceeds the threshold was kept
C20_Witness ==
    /\ fpc = "returned"
    /\ \E b, c \in 1..Len(fin) :
         /\ IoUExceeds(fin[b], fin[c])
         /\ fin[b].quality_score > fin[c].quality_score
         /\ ~is_in(fin[b], fkept.overlap)
         /\ is_in(fin[c], fkept.overlap)

----------------------------------------------------------------------------
(* Properties of find_local_maxima (checked under SpecMaxima)              *)

\* the radius r of the specified window, in samples
SpecifiedRadius == (lm_in.min_distance_sec + step_sec - 1) \div step_sec

\* index i (0-based) is a candidate of Local Maxima with Suppression
SpecifiedCandidate(i) ==
    LET a == lm_in.arr
        N == Len(a)
    IN  /\ 1 <= i /\ i <= N - 2
        /\ a[i + 1] > lm_in.threshold
        /\ \A j \in Max(0, i - SpecifiedRadius)..(Min(N, i + SpecifiedRadius + 1) - 1) :
               a[j + 1] <= a[i + 1]

Selected(i) == \E k \in 1..Len(lm_selected) : lm_selected[k].idx = i

\* C21: find_local_maxima returns candidates only, a candidate being an
\* index i with 1 <= i <= N-2, a[i] > threshold and a[i] the maximum over
\* [max(0, i-r), min(N, i+r+1)) for r = ceil(min_distance_sec / step_sec);
\* a candidate is left out only when an accepted one of at least its value
\* lies less than min_distance_sec from it; for every min_distance_sec,
\* multiple of step_sec or not.
C21_MaximaAsSpecified ==
    lm_pc = "returned" =>
        /\ \A k \in 1..Len(lm_selected) : SpecifiedCandidate(lm_selected[k].idx)
        /\ \A i \in 0..(Len(lm_in.arr) - 1) :
             (SpecifiedCandidate(i) /\ ~Selected(i)) =>
                 \E k \in 1..Len(lm_selected) :
                     /\ lm_selected[k].value >= lm_in.arr[i + 1]
                     /\ Distance(lm_selected[k].time, i * step_sec)
                            < lm_in.min_distance_sec

----------------------------------------------------------------------------
(* Properties of the v1 segmentation (checked under SpecSegments)          *)

RECURSIVE TotalDuration(_)
TotalDuration(segs) ==
    IF segs = <<>> THEN 0 ELSE seg_duration(Head(segs)) + TotalDuration(Tail(segs))

\* C24: split_long_segments returns no segment longer than max_duration,
\* whatever segments it is given, also one only slightly longer than
\* max_duration.
C24_NoSegmentAboveMax ==
    seg_pc \in {"merge", "returned"} =>
        \A k \in 1..Len(segments) :
            seg_duration(segments[k]) <= settings_max_clip_seconds

\* C25: the segments generate_clips_from_video returns are contiguous, start
\* at 0, end at video_duration and their durations sum to video_duration,
\* for every list of timestamps within [0, video_duration].
C25_CoveragePreserved ==
    (seg_pc = "returned" /\ seg_in.target_max_clips = settings_target_max_clips) =>
        /\ segments # <<>>
        /\ segments[1].start = 0
        /\ segments[Len(segments)].end = seg_in.video_duration
        /\ \A k \in 1..(Len(segments) - 1) : segments[k].end = segments[k + 1].start
        /\ TotalDuration(segments) = seg_in.video_duration

----------------------------------------------------------------------------
(* Properties of merge_short_segments (checked under SpecMergeFair)        *)

\* the list returned: no segment shorter than min_duration unless it is the
\* only one, and the interval of the argument covered without a gap
MergeResultOK ==
    /\ Len(segments) > 1 =>
           \A k \in 1..Len(segments) :
               seg_duration(segments[k]) >= seg_in.min_duration
    /\ (segments = <<>>) <=> (seg_in.segments = <<>>)
    /\ segments # <<>> =>
           /\ segments[1].start = seg_in.segments[1].start
           /\ segments[Len(segments)].end = seg_in.segments[Len(seg_in.segments)].end
           /\ \A k \in 1..(Len(segments) - 1) :
                  segments[k].end = segments[k + 1].start

\* C26: merge_short_segments terminates on every input; in its result every
\* segment is at least min_duration long unless the result is a single
\* segment, and the result covers the interval the input covers.
C26_MergeTerminates ==
    /\ <>(seg_pc = "returned")
    /\ [](seg_pc = "returned" => MergeResultOK)

\* a call has returned at least two segments after three passes, two of
\* which merged, from an input with a short segment in the middle
C26_Witness ==
    /\ seg_pc = "returned"
    /\ seg_aux # <<>>
    /\ seg_aux.passes >= 3
    /\ Len(segments) >= 2
    /\ \E k \in 2..(Len(seg_in.segments) - 1) :
         seg_duration(seg_in.segments[k]) < seg_in.min_duration

----------------------------------------------------------------------------
(* Properties of the JobRunner (checked under SpecJobs)                    *)

\* C30: a job's status leaves RUNNING only for COMPLETED, FAILED or
\* CANCELLED and is final then, also under a cancel_job or shutdown that
\* arrives while the task is finishing; a task whose _run_job has ended is
\* no longer registered; start_job for a registered id returns False and
\* creates no second task.
C30_StatusFinalAndRegistryClean ==
    /\ [][\A j \in Jobs :
            /\ job_status[j] \in FinalStatuses => job_status'[j] = job_status[j]
            /\ job_status[j] = "running" =>
                   job_status'[j] \in FinalStatuses \cup {"running"}
            /\ j \in running_jobs =>
                   /\ job_aux'.created[j] = job_aux.created[j]
                   /\ job_aux'.returned[j] # job_aux.returned[j] =>
                          job_aux'.returned[j] = "false"]_vars
    /\ [](\A j \in Jobs : job_task[j].pc = "done" => j \notin running_jobs)

============================================================================
